---------------------------- MODULE Spec2Model ----------------------------
(***************************************************************************)
(* A model of pomice's catalog resolvers: the Spotify client               *)
(* (pomice/spotify/client.py, offset pagination) and the Apple Music       *)
(* client (pomice/applemusic/client.py, cursor pagination).  One client    *)
(* instance serves up to two resolve calls (search or                      *)
(* iter_playlist_tracks), which may overlap on the event loop.             *)
(*                                                                         *)
(* Tracks are identified by their position in the provider's playlist      *)
(* (0 .. total-1).  A Spotify page is named by its offset, an Apple Music  *)
(* page by its index in the cursor chain.                                  *)
(***************************************************************************)
EXTENDS Integers, Sequences, FiniteSets, TLC

(* ----------------------------- bounds ---------------------------------- *)
\* largest playlist the modelled provider holds (tracks)
MaxTotal == 5
\* largest playlist_concurrency argument handed to the constructor
MaxConc == 2
\* the clock runs from 1 to MaxTime
MaxTime == 3
\* largest playlist_page_limit argument handed to the constructor
MaxPageLimit == 1
\* longest URL path behind the resource type, in tokens
MaxUrlLen == 7
\* largest max_size of a TrackHistory
MaxHist == 3
\* most tracks added to a TrackHistory between two clears
MaxAdds == 4
\* longest list handed to SearchHelper.remove_duplicates
MaxList == 3

\* page sizes the provider answers with
Limits == {1, 2}
\* batch_size arguments of iter_playlist_tracks
BatchSizes == {1, 2}
\* the call slots of the client under test
Slots == {1, 2}

(* ------------------------ program constants ---------------------------- *)
\* playlist_page_limit: Optional[int] = None
NoLimit == -1
\* track_data.get("next") of a page without a next cursor
NoCursor == -1
\* applemusic: max_waves = 50
max_waves == 50
\* spotify: self._expiry = time.time() + (int(data["expires_in"]) - 10)
ExpirySlack == 10
\* expires_in values the token endpoint answers with
ExpiresIn == {ExpirySlack, ExpirySlack + 1, ExpirySlack + 2}
\* "exp" claims of the Apple Music web token
ExpClaims == 0 .. MaxTime + 1

\* the query of a call whose URL is modelled by its type alone
NoQuery == <<>>

\* what URLs are made of: "x" is a character of an identifier, "i=" the two
\* characters i and =, the others are themselves
UrlTokens == {"x", "/", "?", "&", "i="}
Countries == {"us", "jp"}
UrlTypes == {"album", "playlist"}

\* https://music.apple.com/<country>/<type>/<rest>, where rest begins with
\* a character of a name
Queries ==
    [country : Countries, type : UrlTypes,
     rest : {<<"x">> \o s : s \in UNION {[1 .. n -> UrlTokens] : n \in 0 .. MaxUrlLen - 1}}]

(* --------------------------- helpers ----------------------------------- *)
Max(a, b) == IF a >= b THEN a ELSE b
Min(a, b) == IF a <= b THEN a ELSE b

\* list(range(start, stop, step)) for step > 0
PyRange(start, stop, step) ==
    LET n == IF stop > start THEN (stop - start + step - 1) \div step ELSE 0
    IN  [i \in 1 .. n |-> start + (i - 1) * step]

\* s[:n] and s[n:] of a Python list
Take(s, n) == SubSeq(s, 1, Min(n, Len(s)))
Drop(s, n) == SubSeq(s, Min(n, Len(s)) + 1, Len(s))

\* [s[i : i + b] for i in range(0, len(s), b)], b >= 1
Batches(s, b) ==
    [k \in 1 .. ((Len(s) + b - 1) \div b) |->
        SubSeq(s, (k - 1) * b + 1, Min(k * b, Len(s)))]

RECURSIVE Flatten(_)
Flatten(ss) == IF ss = <<>> THEN <<>> ELSE Head(ss) \o Flatten(Tail(ss))

RECURSIVE SeqToBag(_)
\* the multiset of the elements of a sequence, as a function element -> count
SeqToBag(s) ==
    IF s = <<>> THEN <<>>
    ELSE LET r == SeqToBag(Tail(s))
             h == Head(s)
         IN  IF h \in DOMAIN r THEN [r EXCEPT ![h] = @ + 1]
             ELSE [x \in DOMAIN r \cup {h} |-> IF x = h THEN 1 ELSE r[x]]

VARIABLES
    provider,              \* which client class is under test
    session,               \* self.session injected (TRUE) or still None
    playlist_concurrency,  \* self._playlist_concurrency
    playlist_page_limit,   \* self._playlist_page_limit (spotify)
    token,                 \* self._bearer_token / self.token: 0 = none, n = n-th exchange's
    expiry,                \* self._expiry / self.expiry
    headers,               \* token carried by self._bearer_headers / self.headers, 0 = none
    now,                   \* the latest reading of time.time() / datetime.utcnow()
    nexch,                 \* token exchanges started so far
    total,                 \* provider: tracks in the playlist
    limit,                 \* provider: page size
    nulls,                 \* provider: positions whose "track" is null (spotify)
    cyclic,                \* provider: the last page's next cursor leads back to page 0
    query,                 \* the URL the callers resolve, or NoQuery: any URL
    calls,                 \* per call slot: the coroutine's locals and position
    max_size,              \* TrackHistory.max_size
    history,               \* TrackHistory._history, oldest first
    current_index,         \* TrackHistory._current_index
    added,                 \* the tracks handed to add since the last clear, oldest first
    hop,                   \* the TrackHistory method called last
    hret,                  \* what that method returned: <<>> is None or an empty list
    rd_tracks,             \* remove_duplicates: the argument tracks
    by_uri,                \* remove_duplicates: the argument by_uri
    by_title_author,       \* remove_duplicates: the argument by_title_author
    rd_called,             \* remove_duplicates has returned
    rd_result              \* remove_duplicates: the list returned

vars == <<provider, session, playlist_concurrency, playlist_page_limit, token,
          expiry, headers, now, nexch, total, limit, nulls, cyclic, query, calls,
          max_size, history, current_index, added, hop, hret,
          rd_tracks, by_uri, by_title_author, rd_called, rd_result>>

clientVars == <<provider, session, playlist_concurrency, playlist_page_limit>>
tokenVars == <<token, expiry, headers>>
histVars == <<max_size, history, current_index, added, hop, hret>>
dedupVars == <<rd_tracks, by_uri, by_title_author, rd_called, rd_result>>
dataVars == <<total, limit, nulls, cyclic, query, histVars, dedupVars>>

(* ------------------------- provider data ------------------------------- *)
\* positions of the items of the page at offset o (spotify) / index k (applemusic)
SpPageItems(o) == PyRange(o, Min(o + limit, total), 1)
AmPageItems(k) == PyRange(k * limit, Min((k + 1) * limit, total), 1)

\* [Track(item["track"]) for item in items if item["track"] is not None]
Usable(items) == SelectSeq(items, LAMBDA t : t \notin nulls)

\* pj.get("next") of the page with index k
NextCursor(k) ==
    IF (k + 1) * limit < total THEN k + 1
    ELSE IF cyclic THEN 0 ELSE NoCursor

(* ----------------------------- Init ------------------------------------ *)
\* the locals of a coroutine that has not been called yet
IdleCall ==
    [pc |-> "idle", mode |-> "none", qtype |-> "none", batch |-> 0,
     exc |-> "none", xch |-> 0, tokId |-> 0,
     t0 |-> 0, tok0 |-> 0, exp0 |-> 0, sess0 |-> FALSE, solo |-> FALSE,
     route |-> <<>>, nlook |-> 0, last |-> "none",
     tracks |-> <<>>, agg |-> <<>>, pending |-> <<>>,
     wave |-> <<>>, res |-> <<>>, sem |-> 0, waveNo |-> 0,
     idx |-> 0, ri |-> 0, outbox |-> <<>>, yielded |-> <<>>,
     reqp |-> {}, okp |-> {}, nreq |-> 0, reqs |-> <<>>, unordered |-> FALSE,
     hdr |-> 0]

\* playlist_concurrency arguments handed to the constructor
ConcArgs == -1 .. MaxConc

\* a constructor that stores its argument as it is
ClampNone(arg) == arg

\* Client.__init__: self._playlist_concurrency = max(1, playlist_concurrency)
Clamp(arg) == Max(1, arg)

\* TrackHistory.__init__: an empty deque, no navigation position
HistoryInit(size) ==
    /\ max_size = size
    /\ history = <<>>
    /\ current_index = -1
    /\ added = <<>>
    /\ hop = "init"
    /\ hret = <<>>

\* the client under test keeps no history
NoHistory == HistoryInit(1)

\* remove_duplicates is about to be called with these arguments
DedupInit(tracks, uri, title_author) ==
    /\ rd_tracks = tracks
    /\ by_uri = uri
    /\ by_title_author = title_author
    /\ rd_called = FALSE
    /\ rd_result = <<>>

\* the client under test calls no track utilities
NoDedup == DedupInit(<<>>, TRUE, FALSE)

\* spotify Client.__init__
SpClientInit ==
    /\ provider = "spotify"
    /\ \E arg \in ConcArgs : playlist_concurrency = Clamp(arg)
    /\ playlist_page_limit \in {NoLimit} \cup (0 .. MaxPageLimit)
    /\ nulls \in {{}, {0}, {total - 1}} \cap SUBSET (0 .. total - 1)
    /\ cyclic = FALSE

\* applemusic Client.__init__
AmClientInit ==
    /\ provider = "applemusic"
    /\ \E arg \in ConcArgs : playlist_concurrency = Clamp(arg)
    /\ playlist_page_limit = NoLimit
    /\ nulls = {}
    /\ cyclic \in BOOLEAN

\* a freshly constructed client, whose callers will make the calls of slots
\* on a playlist of at most maxTotal tracks
ClientInit(slots, maxTotal, clock) ==
    /\ total \in 0 .. maxTotal
    /\ limit \in Limits
    /\ SpClientInit \/ AmClientInit
    /\ session = FALSE
    /\ token = 0
    /\ expiry = 0
    /\ headers = 0
    /\ now = clock
    /\ nexch = 0
    /\ calls = [c \in slots |-> IdleCall]
    /\ NoHistory
    /\ NoDedup

\* one resolve call on a fresh client
Init == ClientInit({1}, MaxTotal, 1) /\ query = NoQuery

\* two playlist calls on a fresh client, which may overlap; both fall into the
\* last instant of the modelled clock
InitPair == ClientInit(Slots, MaxTotal, MaxTime) /\ ~cyclic /\ query = NoQuery

\* Client._set_session
SetSession ==
    /\ ~session
    /\ session' = TRUE
    /\ UNCHANGED <<provider, playlist_concurrency, playlist_page_limit,
                   tokenVars, now, nexch, dataVars, calls>>

\* time.time() / datetime.utcnow(): the clock is read; it never runs backwards
ClockReads == now .. MaxTime
(* ------------------------ the concurrency gate ------------------------- *)
\* waves of a quarter of the permits
WaveSizeQuarter == playlist_concurrency \div 4

\* wave_size = self._playlist_concurrency * 2
WaveSize == playlist_concurrency * 2

\* waves that hold batch_size fetches
SubmitBatchSized(r, pages) ==
    [r EXCEPT !.pc = "wave", !.wave = Take(pages, r.batch),
              !.res = [i \in 1 .. Len(Take(pages, r.batch)) |-> "queued"]]

\* a call that exchanges its token again before every wave
SubmitRefreshing(r, pages) ==
    [r EXCEPT !.pc = "wave", !.wave = pages,
              !.res = [i \in 1 .. Len(pages) |-> "queued"],
              !.xch = @ + 1]
\* asyncio.gather(*[fetch_page(p) for p in pages]): one task per page, none
\* of which has run yet
Submit(r, pages) ==
    [r EXCEPT !.pc = "wave", !.wave = pages,
              !.res = [i \in 1 .. Len(pages) |-> "queued"]]

\* semaphore = asyncio.Semaphore(self._playlist_concurrency)
NewSemaphore(r) == [r EXCEPT !.sem = playlist_concurrency]

\* page fetches of call r between gate entry and gate exit
InFlight(r) == Cardinality({i \in DOMAIN r.res : r.res[i] = "inflight"})

\* the tasks of the current wave that have not entered the gate, oldest first
Queued(r) == {i \in DOMAIN r.res : r.res[i] = "queued"}

\* a gate that lets every fetch through
GateOpenNoGate(r) == TRUE

\* async with semaphore: a permit is free
GateOpen(r) == r.sem > 0

\* a gather that returns as soon as one task has
WaveCompleteEarly(r) == \E i \in DOMAIN r.res : r.res[i] \in {"ok", "fail", "err"}
\* a gather that returns as soon as its first task has
WaveCompleteHead(r) == r.res # <<>> /\ r.res[1] \in {"ok", "fail", "err"}
\* every task of the wave has returned or raised
WaveComplete(r) == \A i \in DOMAIN r.res : r.res[i] \in {"ok", "fail", "err"}

\* a fetch that reads the body of a page whatever its status
SpResultAnyStatus(r, i) == Usable(SpPageItems(r.wave[i]))

\* the tracks a finished page fetch returned to gather
SpResult(r, i) == IF r.res[i] = "ok" THEN Usable(SpPageItems(r.wave[i])) ELSE <<>>
AmResult(r, i) == IF r.res[i] = "ok" THEN AmPageItems(r.wave[i]) ELSE <<>>

Raise(r, e) == [r EXCEPT !.pc = "raised", !.exc = e]
Return(r) == [r EXCEPT !.pc = "done"]

(* ---------------- spotify search: lines 139-209 ------------------------ *)
\* offsets up to and including total
SpPageOffsetsInclusive ==
    LET offs == PyRange(limit, total + 1, limit)
    IN  IF playlist_page_limit # NoLimit
        THEN Take(offs, playlist_page_limit)
        ELSE offs

\* remaining_offsets / page_urls, truncated by playlist_page_limit
SpPageOffsets ==
    LET offs == PyRange(limit, total, limit)
    IN  IF playlist_page_limit # NoLimit
        THEN Take(offs, playlist_page_limit)
        ELSE offs

\* a loop that takes its waves from the end of page_urls
SpSearchNextWaveLastFirst(r) ==
    IF r.pending = <<>>
    THEN Return([r EXCEPT !.tracks = @ \o r.agg])
    ELSE LET k == Min(WaveSize, Len(r.pending))
         IN  Submit([r EXCEPT !.pending = Take(@, Len(@) - k), !.waveNo = @ + 1],
                    SubSeq(r.pending, Len(r.pending) - k + 1, Len(r.pending)))
\* for i in range(0, len(page_urls), wave_size): wave = page_urls[i : i + wave_size]
SpSearchNextWave(r) ==
    IF r.pending = <<>>
    THEN Return([r EXCEPT !.tracks = @ \o r.agg])
    ELSE Submit([r EXCEPT !.pending = Drop(@, WaveSize), !.waveNo = @ + 1],
                Take(r.pending, WaveSize))

\* the first page of a playlist answered 200
SpSearchFirstPage(r) ==
    LET first == Usable(SpPageItems(0))
        r1 == [r EXCEPT !.tracks = first]
    IN  IF first = <<>> THEN Raise(r1, "SpotifyRequestException")
        ELSE IF total <= limit THEN Return(r1)
        ELSE IF SpPageOffsets = <<>> THEN Return(r1)
        ELSE SpSearchNextWave(NewSemaphore([r1 EXCEPT !.pending = SpPageOffsets]))

RECURSIVE SpAggregateReversed(_, _)
\* an aggregation that takes the results of a wave last to first
SpAggregateReversed(r, i) ==
    IF i > Len(r.wave) THEN r
    ELSE SpAggregateReversed(
             [r EXCEPT !.agg = @ \o SpResult(r, Len(r.wave) + 1 - i)], i + 1)

RECURSIVE SpAggregate(_, _)
\* for result in results: if result: aggregated.extend(result)
SpAggregate(r, i) ==
    IF i > Len(r.wave) THEN r
    ELSE SpAggregate([r EXCEPT !.agg = @ \o SpResult(r, i)], i + 1)

\* gather returned: the wave's results are appended in submission order
SpSearchJoin(r) == SpSearchNextWave(SpAggregate(r, 1))

(* -------------- applemusic search: lines 167-224 ----------------------- *)
\* a loop test that lets one wave too many through
AmSearchNextWaveOffByOne(r) ==
    IF r.pending # <<>> /\ r.waveNo <= max_waves
    THEN Submit([r EXCEPT !.pending = Drop(@, WaveSize)], Take(r.pending, WaveSize))
    ELSE Return([r EXCEPT !.tracks = @ \o r.agg])

\* while cursors and wave_counter < max_waves: current = cursors[:wave_size]
AmSearchNextWave(r) ==
    IF r.pending # <<>> /\ r.waveNo < max_waves
    THEN Submit([r EXCEPT !.pending = Drop(@, WaveSize)], Take(r.pending, WaveSize))
    ELSE Return([r EXCEPT !.tracks = @ \o r.agg])

AmSearchFirstPage(r) ==
    LET first == AmPageItems(0)
        nxt == NextCursor(0)
        r1 == [r EXCEPT !.tracks = first]
    IN  IF Len(first) = 0 THEN Raise(r1, "AppleMusicRequestException")
        ELSE AmSearchNextWave(NewSemaphore(
                 [r1 EXCEPT !.pending = IF nxt # NoCursor THEN <<nxt>> ELSE <<>>]))

RECURSIVE AmAggregateFollowAll(_, _)
\* an aggregation that follows the chain behind a page whatever its outcome
AmAggregateFollowAll(r, i) ==
    IF i > Len(r.wave) THEN r
    ELSE LET nxt == NextCursor(r.wave[i])
         IN  AmAggregateFollowAll(
                 [r EXCEPT !.agg = @ \o AmResult(r, i),
                           !.pending = IF nxt # NoCursor THEN Append(@, nxt) ELSE @],
                 i + 1)

RECURSIVE AmAggregateTwice(_, _)
\* an aggregation that enqueues the next cursor of a page twice
AmAggregateTwice(r, i) ==
    IF i > Len(r.wave) THEN r
    ELSE LET nxt == NextCursor(r.wave[i])
         IN  AmAggregateTwice(
                 IF r.res[i] = "ok"
                 THEN [r EXCEPT !.agg = @ \o AmResult(r, i),
                                !.pending = IF nxt # NoCursor THEN @ \o <<nxt, nxt>> ELSE @]
                 ELSE r,
                 i + 1)
RECURSIVE AmAggregate(_, _)
\* for res in results: if isinstance(res, tuple): waves.append(songs); cursors.append(nxt)
AmAggregate(r, i) ==
    IF i > Len(r.wave) THEN r
    ELSE LET nxt == NextCursor(r.wave[i])
         IN  AmAggregate(
                 IF r.res[i] = "ok"
                 THEN [r EXCEPT !.agg = @ \o AmResult(r, i),
                                !.pending = IF nxt # NoCursor THEN Append(@, nxt) ELSE @]
                 ELSE r,
                 i + 1)

AmSearchJoin(r) ==
    AmSearchNextWave([AmAggregate(r, 1) EXCEPT !.waveNo = @ + 1])
(* ------------- the streaming variant: iter_playlist_tracks ------------- *)
\* a generator that hands over a page as a single batch
EmitWhole(r, songs, i) ==
    [r EXCEPT !.pc = "yield", !.ri = i,
              !.yielded = Append(@, songs), !.outbox = <<>>]
\* a generator that fills up a short batch with the tracks of the next page
EmitCarry(r, songs, i) ==
    LET carry == IF r.yielded # <<>> /\ Len(r.yielded[Len(r.yielded)]) < r.batch
                 THEN r.yielded[Len(r.yielded)] ELSE <<>>
        bs == Batches(carry \o songs, r.batch)
    IN  [r EXCEPT !.pc = "yield", !.ri = i,
                  !.yielded = Append(@, Head(bs)), !.outbox = Tail(bs)]
\* for j in range(0, len(songs), batch_size): yield songs[j : j + batch_size]
\* the generator hands over the first batch and is suspended at the yield
Emit(r, songs, i) ==
    LET bs == Batches(songs, r.batch)
    IN  [r EXCEPT !.pc = "yield", !.ri = i,
                  !.yielded = Append(@, Head(bs)), !.outbox = Tail(bs)]

\* spotify, line 293: the offsets o with offset <= o < offset + wave_size
SpWaveOffsets(offset) ==
    SelectSeq(PyRange(limit, total, limit),
              LAMBDA o : o >= offset /\ o < offset + WaveSize)

RECURSIVE SpIterLoop(_, _)
\* spotify, lines 289-295: for i, offset in enumerate(remaining_offsets):
\*     if i % wave_size == 0: gather the fetches of wave_offsets
SpIterLoop(r, i) ==
    LET remaining_offsets == PyRange(limit, total, limit)
    IN  IF i >= Len(remaining_offsets) THEN Return(r)
        ELSE IF i % WaveSize = 0
             THEN Submit([r EXCEPT !.idx = i, !.waveNo = @ + 1],
                         SpWaveOffsets(remaining_offsets[i + 1]))
             ELSE SpIterLoop(r, i + 1)

\* spotify, lines 303-307: next(remaining_offsets) on a range object raises
\* TypeError, which the except StopIteration clause does not catch
SpIterWaveEnd(r) ==
    IF Len(r.wave) - 1 > 0 THEN Raise(r, "TypeError")
    ELSE SpIterLoop(r, r.idx + 1)

RECURSIVE SpIterPages(_, _)
\* spotify, lines 296-300: for page_tracks in results: if not page_tracks: continue
SpIterPages(r, i) ==
    IF i > Len(r.wave) THEN SpIterWaveEnd(r)
    ELSE IF SpResult(r, i) = <<>> THEN SpIterPages(r, i + 1)
    ELSE Emit(r, SpResult(r, i), i)

\* spotify, lines 245-262: the first page is yielded, then the waves start
SpIterFirstPage(r) ==
    LET first == Usable(SpPageItems(0))
        r1 == [r EXCEPT !.tracks = first]
    IN  IF first # <<>> THEN Emit(r1, first, 0)
        ELSE SpIterLoop(NewSemaphore(r1), 0)

\* the consumer asked for the next batch and no batch of the page is left
SpIterContinue(r) ==
    IF r.ri = 0 THEN SpIterLoop(NewSemaphore(r), 0)
    ELSE SpIterPages(r, r.ri + 1)

\* applemusic, line 288: while cursors and waves < max_waves
AmIterLoop(r) ==
    IF r.pending # <<>> /\ r.waveNo < max_waves
    THEN Submit([r EXCEPT !.pending = Drop(@, WaveSize)], Take(r.pending, WaveSize))
    ELSE Return(r)

RECURSIVE AmIterPages(_, _)
RECURSIVE AmIterAfterPage(_, _)
\* applemusic, lines 292-298: for songs, nxt in results
AmIterPages(r, i) ==
    IF i > Len(r.wave) THEN AmIterLoop([r EXCEPT !.waveNo = @ + 1])
    ELSE IF AmResult(r, i) # <<>> THEN Emit(r, AmResult(r, i), i)
    ELSE AmIterAfterPage(r, i)

\* applemusic, lines 296-297: if nxt: cursors.append(nxt)
AmIterAfterPage(r, i) ==
    LET nxt == IF r.res[i] = "ok" THEN NextCursor(r.wave[i]) ELSE NoCursor
    IN  AmIterPages([r EXCEPT !.pending = IF nxt # NoCursor THEN Append(@, nxt) ELSE @],
                    i + 1)

\* applemusic, lines 260-287
AmIterStart(r) ==
    LET nxt == NextCursor(0)
    IN  AmIterLoop(NewSemaphore(
            [r EXCEPT !.pending = IF nxt # NoCursor THEN <<nxt>> ELSE <<>>]))

AmIterFirstPage(r) ==
    LET first == AmPageItems(0)
        r1 == [r EXCEPT !.tracks = first]
    IN  IF first # <<>> THEN Emit(r1, first, 0) ELSE AmIterStart(r1)

AmIterContinue(r) ==
    IF r.ri = 0 THEN AmIterStart(r) ELSE AmIterAfterPage(r, r.ri)
(* --------------------- applemusic route parsing ------------------------ *)
\* a regular expression did not match
NoMatch == <<>>

\* the last position of the longest run of tokens outside stop that begins
\* at position a of s (a - 1 when the run is empty)
RunEnd(s, a, stop) ==
    CHOOSE b \in a - 1 .. Len(s) :
        /\ \A k \in a .. b : s[k] \notin stop
        /\ b = Len(s) \/ s[b + 1] \in stop

\* (?:/)?(?:\?.*)?$ matches s from position p on
AmUrlTail(s, p) ==
    \/ p > Len(s)
    \/ s[p] = "?"
    \/ s[p] = "/" /\ (p = Len(s) \/ s[p + 1] = "?")

\* AM_URL_REGEX behind the type: (?P<name>.+?)/(?P<id>[^/?]+?)(?:/)?(?:\?.*)?$
\* the lengths of name with which the expression matches
AmUrlNames(s) ==
    {n \in 1 .. Len(s) - 2 :
        /\ s[n + 1] = "/"
        /\ RunEnd(s, n + 2, {"/", "?"}) >= n + 2
        /\ AmUrlTail(s, RunEnd(s, n + 2, {"/", "?"}) + 1)}

\* AM_URL_REGEX.match: name is lazy, so the shortest name wins
AM_URL_REGEX(s) ==
    IF AmUrlNames(s) = {} THEN NoMatch
    ELSE LET n == CHOOSE x \in AmUrlNames(s) : \A y \in AmUrlNames(s) : x <= y
             e == RunEnd(s, n + 2, {"/", "?"})
         IN  [name |-> SubSeq(s, 1, n), id |-> SubSeq(s, n + 2, e), end |-> e]

\* AM_SINGLE_IN_ALBUM_REGEX behind the type:
\* (?P<name>.+)/(?P<id>[^/?]+)(\?i=)(?P<id2>[^&]+)(?:&.*)?$
\* the lengths of name with which the expression matches
AmSiaNames(s) ==
    {n \in 1 .. Len(s) - 5 :
        /\ s[n + 1] = "/"
        /\ LET e == RunEnd(s, n + 2, {"/", "?"})
           IN  /\ e >= n + 2
               /\ e + 3 <= Len(s)
               /\ s[e + 1] = "?"
               /\ s[e + 2] = "i="
               /\ s[e + 3] # "&"}

\* AM_SINGLE_IN_ALBUM_REGEX.match: name is greedy, so the longest name wins
AM_SINGLE_IN_ALBUM_REGEX(s) ==
    IF AmSiaNames(s) = {} THEN NoMatch
    ELSE LET n == CHOOSE x \in AmSiaNames(s) : \A y \in AmSiaNames(s) : x >= y
             e == RunEnd(s, n + 2, {"/", "?"})
         IN  [name |-> SubSeq(s, 1, n), id |-> SubSeq(s, n + 2, e),
              id2 |-> SubSeq(s, e + 3, RunEnd(s, e + 3, {"&"}))]

\* applemusic search, lines 117-129: country, type and id of the request URL
AmRoute(q) ==
    LET result == AM_URL_REGEX(q.rest)
        sia_result == AM_SINGLE_IN_ALBUM_REGEX(q.rest)
    IN  IF q.type = "album" /\ sia_result # NoMatch
        THEN [country |-> q.country, type |-> "song", id |-> sia_result.id2]
        ELSE [country |-> q.country, type |-> q.type, id |-> result.id]

\* the kind of resource the call looks up for query q
AmQType(q) ==
    IF AM_URL_REGEX(q.rest) = NoMatch THEN "invalid"
    ELSE IF AmRoute(q).type = "song" /\ q.type = "album" THEN "album_song"
    ELSE q.type

(* ----------------------- token and route ------------------------------- *)
\* what the URL regexes make of the query
QTypes ==
    IF provider = "spotify"
    THEN {"invalid", "track", "album", "artist", "playlist"}
    ELSE {"invalid", "song", "album", "album_song", "artist", "playlist"}

InvalidURL == IF provider = "spotify" THEN "InvalidSpotifyURL" ELSE "InvalidAppleMusicURL"
RequestException ==
    IF provider = "spotify" THEN "SpotifyRequestException" ELSE "AppleMusicRequestException"

\* the exception classes the client modules import and raise themselves
DeclaredKinds == {InvalidURL, RequestException}

\* spotify line 91: if not self._bearer_token or time.time() >= self._expiry
SpNeedToken(t) == token = 0 \/ t >= expiry
\* applemusic line 108: if not self.token or datetime.utcnow() > self.expiry
AmNeedToken(t) == token = 0 \/ t > expiry

\* the positions of a coroutine suspended inside the token exchange
Exchanging == {"token", "amtoken1", "amtoken2"}

\* a client that exchanges on every call
NeedTokenAlways(t) == TRUE

\* a client that joins the exchange another call has in flight
NeedTokenSingleFlight(t) ==
    /\ IF provider = "spotify" THEN SpNeedToken(t) ELSE AmNeedToken(t)
    /\ \A d \in DOMAIN calls : calls[d].pc \notin Exchanging

NeedToken(t) == IF provider = "spotify" THEN SpNeedToken(t) ELSE AmNeedToken(t)

\* a call that sends the resource lookup before it looks at the URL
AfterTokenLookupFirst(r) ==
    IF ~session
    THEN Raise(r, IF provider = "spotify" THEN RequestException ELSE "AttributeError")
    ELSE [r EXCEPT !.pc = "first", !.nlook = @ + 1]

\* a call that looks at the shape of the URL and not at its type
AfterTokenAnyType(r) ==
    IF r.qtype = "invalid"
    THEN Raise(r, InvalidURL)
    ELSE IF ~session
    THEN Raise(r, IF provider = "spotify" THEN RequestException ELSE "AttributeError")
    ELSE [r EXCEPT !.pc = "first", !.nlook = @ + 1]

\* the token is in hand: match the URL and send the resource lookup
AfterToken(r) ==
    IF /\ r.mode # "track_search"
       /\ \/ r.qtype = "invalid"
          \/ (r.mode = "iter" /\ r.qtype # "playlist")
          \/ (r.mode = "recs" /\ r.qtype # "track")
    THEN Raise(r, InvalidURL)
    ELSE IF ~session
    THEN Raise(r, IF provider = "spotify" THEN RequestException ELSE "AttributeError")
    ELSE [r EXCEPT !.pc = "first", !.nlook = @ + 1,
                   !.route = IF query = NoQuery THEN <<>> ELSE AmRoute(query)]

\* _fetch_bearer_token / request_token is entered and sends its first request
BeginExchange(r) ==
    IF ~session
    THEN Raise(r, IF provider = "spotify" THEN RequestException ELSE "AttributeError")
    ELSE [r EXCEPT !.pc = IF provider = "spotify" THEN "token" ELSE "amtoken1",
                   !.xch = @ + 1, !.tokId = nexch + 1]

\* one of the client's coroutines is called with a URL
StartModes(c, modes, qtypes) ==
    /\ calls[c].pc = "idle"
    /\ \A d \in DOMAIN calls : d < c => calls[d].pc # "idle"
    /\ \E mode \in modes, qtype \in qtypes, batch \in BatchSizes,
          t \in ClockReads :
         /\ mode # "iter" => batch = 1
         /\ now' = t
         /\ LET r == [calls[c] EXCEPT !.mode = mode, !.qtype = qtype, !.batch = batch,
                                      !.t0 = t, !.tok0 = token, !.exp0 = expiry,
                                      !.sess0 = session,
                                      !.solo = \A d \in DOMAIN calls \ {c} :
                                                  calls[d].pc \in {"idle", "done", "raised"}]
            IN  IF NeedToken(t)
                THEN /\ calls' = [calls EXCEPT ![c] = BeginExchange(r)]
                     /\ nexch' = IF session THEN nexch + 1 ELSE nexch
                ELSE /\ calls' = [calls EXCEPT ![c] = AfterToken(r)]
                     /\ nexch' = nexch
    /\ UNCHANGED <<clientVars, tokenVars, dataVars>>

\* search(query) / iter_playlist_tracks(query, batch_size) is called
StartWith(c, qtypes) == StartModes(c, {"search", "iter"}, qtypes)

\* spotify get_recommendations(query) is called
Recommend(c) == provider = "spotify" /\ StartModes(c, {"recs"}, QTypes)

\* spotify track_search(query) is called: the query is free text, which the
\* coroutine sends as it is, whatever the URL regexes would make of it
TrackSearch(c) == provider = "spotify" /\ StartModes(c, {"track_search"}, QTypes)

\* track_search is called with a query that is no URL
TrackSearchText(c) ==
    provider = "spotify" /\ StartModes(c, {"track_search"}, {"invalid"})

\* two calls with a URL of a single resource (no playlist) or with free
\* text on a fresh client with one permit and no page limit, which may
\* overlap, while the clock runs
InitToken ==
    /\ ClientInit(Slots, 0, 1) /\ ~cyclic /\ limit = 1 /\ query = NoQuery
    /\ playlist_concurrency = 1 /\ playlist_page_limit = NoLimit

\* a call with any URL
Start(c) == StartWith(c, QTypes)

\* a call with the URL of a track, an album or an artist, or with no valid URL
StartLookup(c) == StartWith(c, QTypes \ {"playlist"})

\* a call with a playlist URL
StartPlaylist(c) == StartWith(c, {"playlist"})

\* search is called with a playlist URL
SearchPlaylist(c) == StartPlaylist(c) /\ calls'[c].mode = "search"

\* iter_playlist_tracks is called with a playlist URL by a caller that has
\* consumed its earlier runs to their end
IterPlaylist(c) ==
    /\ StartPlaylist(c)
    /\ calls'[c].mode = "iter"
    /\ \A d \in DOMAIN calls \ {c} : calls[d].pc \in {"idle", "done", "raised"}

\* a fresh spotify client with 4 permits and a playlist of 250 tracks served
\* in pages of 100
InitScenario ==
    /\ provider = "spotify"
    /\ total = 250 /\ limit = 100 /\ nulls = {} /\ cyclic = FALSE
    /\ playlist_concurrency = Clamp(4)
    /\ playlist_page_limit = NoLimit
    /\ session = FALSE
    /\ token = 0 /\ expiry = 0 /\ headers = 0
    /\ now = 1 /\ nexch = 0
    /\ query = NoQuery
    /\ calls = [c \in {1} |-> IdleCall]
    /\ NoHistory
    /\ NoDedup

\* search is called with the URL query
StartQuery(c) == StartWith(c, {AmQType(query)}) /\ calls'[c].mode = "search"

\* one call with a given URL on a fresh applemusic client
InitRoute ==
    /\ ClientInit({1}, 0, MaxTime)
    /\ provider = "applemusic" /\ ~cyclic /\ limit = 1 /\ playlist_concurrency = 1
    /\ query \in Queries

\* spotify _fetch_bearer_token, lines 73-79: the POST is answered with a status
\* other than 200, or with a body that lacks "access_token"
SpTokenRefused(c) ==
    /\ calls[c].pc = "token"
    /\ \/ calls' = [calls EXCEPT ![c] = Raise(@, "SpotifyRequestException")]
       \/ calls' = [calls EXCEPT ![c] = Raise(@, "KeyError")]
    /\ UNCHANGED <<clientVars, tokenVars, now, nexch, dataVars>>

\* spotify _fetch_bearer_token, lines 84-85: the body holds "access_token" and
\* lacks "expires_in"; line 85 reads the clock before data["expires_in"]
\* raises
SpTokenNoExpiry(c) ==
    /\ calls[c].pc = "token"
    /\ \E t \in ClockReads : now' = t
    /\ token' = calls[c].tokId
    /\ calls' = [calls EXCEPT ![c] = Raise(@, "KeyError")]
    /\ UNCHANGED <<clientVars, expiry, headers, nexch, dataVars>>

\* spotify _fetch_bearer_token, lines 84-88: the token is installed
SpTokenOk(c) ==
    /\ calls[c].pc = "token"
    /\ \E expires_in \in ExpiresIn, t \in ClockReads :
         /\ now' = t
         /\ token' = calls[c].tokId
         /\ expiry' = t + (expires_in - ExpirySlack)
         /\ headers' = calls[c].tokId
         /\ calls' = [calls EXCEPT ![c] = AfterToken(@)]
    /\ UNCHANGED <<clientVars, nexch, dataVars>>

SpTokenRespond(c) == SpTokenRefused(c) \/ SpTokenNoExpiry(c) \/ SpTokenOk(c)

\* applemusic request_token, lines 56-71: the main page is answered with a
\* status other than 200 or without the script tag
AmTokenPageBad(c) ==
    /\ calls[c].pc = "amtoken1"
    /\ calls' = [calls EXCEPT ![c] = Raise(@, "AppleMusicRequestException")]
    /\ UNCHANGED <<clientVars, tokenVars, now, nexch, dataVars>>

\* applemusic request_token, lines 75-78: the script asset is requested
AmTokenPageOk(c) ==
    /\ calls[c].pc = "amtoken1"
    /\ calls' = [calls EXCEPT ![c].pc = "amtoken2"]
    /\ UNCHANGED <<clientVars, tokenVars, now, nexch, dataVars>>

AmTokenPage(c) == AmTokenPageBad(c) \/ AmTokenPageOk(c)

\* applemusic request_token, lines 80-90: the asset is answered with a status
\* other than 200 or holds no token
AmTokenAssetBad(c) ==
    /\ calls[c].pc = "amtoken2"
    /\ calls' = [calls EXCEPT ![c] = Raise(@, "AppleMusicRequestException")]
    /\ UNCHANGED <<clientVars, tokenVars, now, nexch, dataVars>>

\* applemusic request_token, lines 98-103, what decoding the token can raise:
\* IndexError for a token without a dot, ValueError for a payload that is no
\* base64, UTF-8 or JSON, KeyError for a payload without "exp", TypeError for
\* an "exp" that is no number, OSError, ValueError or OverflowError for one
\* out of range
DecodeErrors ==
    {"IndexError", "ValueError", "KeyError", "TypeError", "OSError", "OverflowError"}

\* applemusic request_token, lines 93-103: the token and the headers are
\* installed, and decoding the token's "exp" claim raises
AmTokenNoExpiry(c) ==
    /\ calls[c].pc = "amtoken2"
    /\ token' = calls[c].tokId
    /\ headers' = calls[c].tokId
    /\ \E kind \in DecodeErrors : calls' = [calls EXCEPT ![c] = Raise(@, kind)]
    /\ UNCHANGED <<clientVars, expiry, now, nexch, dataVars>>

\* applemusic request_token, lines 93-103: token, headers and expiry are installed
AmTokenOk(c) ==
    /\ calls[c].pc = "amtoken2"
    /\ \E exp \in ExpClaims :
         /\ token' = calls[c].tokId
         /\ headers' = calls[c].tokId
         /\ expiry' = exp
         /\ calls' = [calls EXCEPT ![c] = AfterToken(@)]
    /\ UNCHANGED <<clientVars, now, nexch, dataVars>>

AmTokenAsset(c) == AmTokenAssetBad(c) \/ AmTokenNoExpiry(c) \/ AmTokenOk(c)

(* ------------------------ resource lookup ------------------------------ *)
\* the resource lookup (the first page of a playlist) answered 200
FirstPage(r) ==
    IF r.mode = "iter"
    THEN IF provider = "spotify" THEN SpIterFirstPage(r) ELSE AmIterFirstPage(r)
    ELSE IF r.mode \in {"recs", "track_search"} THEN Return(r)
    ELSE IF r.qtype = "artist" THEN [r EXCEPT !.pc = "top", !.nlook = @ + 1]
    ELSE IF r.qtype # "playlist" THEN Return(r)
    ELSE IF provider = "spotify" THEN SpSearchFirstPage(r) ELSE AmSearchFirstPage(r)

\* a lookup whose status is not looked at
FirstRespondBadTolerated(c) ==
    /\ calls[c].pc = "first"
    /\ calls' = [calls EXCEPT ![c] = FirstPage([@ EXCEPT !.last = "bad"])]
    /\ UNCHANGED <<clientVars, tokenVars, now, nexch, dataVars>>

\* the resource lookup is answered with a status other than 200
FirstRespondBad(c) ==
    /\ calls[c].pc = "first"
    /\ calls' = [calls EXCEPT ![c] = Raise([@ EXCEPT !.last = "bad"], RequestException)]
    /\ UNCHANGED <<clientVars, tokenVars, now, nexch, dataVars>>

\* the resource lookup is answered with 200
FirstRespondOk(c) ==
    /\ calls[c].pc = "first"
    /\ calls' = [calls EXCEPT ![c] = FirstPage([@ EXCEPT !.last = "ok"])]
    /\ UNCHANGED <<clientVars, tokenVars, now, nexch, dataVars>>

FirstRespond(c) == FirstRespondBad(c) \/ FirstRespondOk(c)

\* the artist's top-tracks request is answered
TopRespond(c) ==
    /\ calls[c].pc = "top"
    /\ \/ calls' = [calls EXCEPT ![c] = Raise([@ EXCEPT !.last = "bad"], RequestException)]
       \/ calls' = [calls EXCEPT ![c] = Return([@ EXCEPT !.last = "ok"])]
    /\ UNCHANGED <<clientVars, tokenVars, now, nexch, dataVars>>

(* --------------------------- page fetches ------------------------------ *)
\* async with semaphore: the oldest waiting fetch takes a permit and sends its
\* request with headers=self._bearer_headers / self.headers as they are now
Enter(r) ==
    LET i == CHOOSE j \in Queued(r) : \A k \in Queued(r) : j <= k
    IN  [r EXCEPT !.res[i] = "inflight", !.sem = @ - 1,
                  !.reqp = @ \cup {r.wave[i]}, !.nreq = @ + 1,
                  !.reqs = Append(@, r.wave[i]), !.hdr = headers]

GateEnter(c) ==
    /\ Queued(calls[c]) # {}
    /\ GateOpen(calls[c])
    /\ calls' = [calls EXCEPT ![c] = Enter(@)]
    /\ UNCHANGED <<clientVars, tokenVars, now, nexch, dataVars>>

\* asyncio.gather(..., return_exceptions=True): applemusic search only
SwallowsErrors(r) == provider = "applemusic" /\ r.mode = "search"

\* a fetch that keeps its permit when it raises
LeaveKeepsPermit(r, i, out) ==
    [r EXCEPT !.res[i] = out,
              !.sem = IF out = "err" THEN @ ELSE @ + 1,
              !.okp = IF out = "ok" THEN @ \cup {r.wave[i]} ELSE @]

\* fetch i leaves the gate with its outcome: 200, another status, or an error
\* raised; its task ends and the caller is still suspended in gather
Leave(r, i, out) ==
    [r EXCEPT !.res[i] = out, !.sem = @ + 1,
              !.okp = IF out = "ok" THEN @ \cup {r.wave[i]} ELSE @,
              !.unordered = @ \/ (r.mode = "search" /\
                                   \E j \in 1 .. i - 1 : r.res[j] = "inflight")]

PageRespondWith(c, outs) ==
    /\ \E i \in DOMAIN calls[c].res, out \in outs :
         /\ calls[c].res[i] = "inflight"
         /\ calls' = [calls EXCEPT ![c] = Leave(@, i, out)]
    /\ UNCHANGED <<clientVars, tokenVars, now, nexch, dataVars>>

\* a page request is answered, whatever the answer
PageRespond(c) == PageRespondWith(c, {"ok", "fail", "err"})

\* a page request is answered with 200 or with another status
PageRespondStatus(c) == PageRespondWith(c, {"ok", "fail"})

\* a page request is answered with 200
PageRespondOk(c) == PageRespondWith(c, {"ok"})

\* gather returns its results to the paginating coroutine
Join(r) ==
    IF provider = "spotify"
    THEN IF r.mode = "search" THEN SpSearchJoin(r) ELSE SpIterPages(r, 1)
    ELSE IF r.mode = "search" THEN AmSearchJoin(r) ELSE AmIterPages(r, 1)

\* asyncio.gather without return_exceptions=True: a fetch of the wave has
\* raised, and its error is on its way to the caller
GatherRaises(r) ==
    r.pc = "wave" /\ ~SwallowsErrors(r) /\ \E i \in DOMAIN r.res : r.res[i] = "err"

\* gather wakes the caller with the error of a fetch; the other fetches of
\* the wave go on
WaveRaise(c) ==
    /\ GatherRaises(calls[c])
    /\ calls' = [calls EXCEPT ![c] = Raise(@, "FetchError")]
    /\ UNCHANGED <<clientVars, tokenVars, now, nexch, dataVars>>

WaveJoin(c) ==
    /\ calls[c].pc = "wave"
    /\ ~GatherRaises(calls[c])
    /\ WaveComplete(calls[c])
    /\ calls' = [calls EXCEPT ![c] = Join(@)]
    /\ UNCHANGED <<clientVars, tokenVars, now, nexch, dataVars>>

\* the consumer asks the generator for its next batch
Continue(r) ==
    IF r.outbox # <<>>
    THEN [r EXCEPT !.yielded = Append(@, Head(r.outbox)), !.outbox = Tail(@)]
    ELSE IF provider = "spotify" THEN SpIterContinue(r) ELSE AmIterContinue(r)

Resume(c) ==
    /\ calls[c].pc = "yield"
    /\ calls' = [calls EXCEPT ![c] = Continue(@)]
    /\ UNCHANGED <<clientVars, tokenVars, now, nexch, dataVars>>

Next ==
    \/ SetSession
    \/ \E c \in DOMAIN calls :
         \/ Start(c)
         \/ Recommend(c)
         \/ TrackSearch(c)
         \/ SpTokenRespond(c)
         \/ AmTokenPage(c)
         \/ AmTokenAsset(c)
         \/ FirstRespond(c)
         \/ TopRespond(c)
         \/ GateEnter(c)
         \/ PageRespond(c)
         \/ WaveRaise(c)
         \/ WaveJoin(c)
         \/ Resume(c)

\* two playlist calls against a provider that answers every request with 200
NextPair ==
    \/ SetSession
    \/ \E c \in DOMAIN calls :
         \/ StartPlaylist(c)
         \/ SpTokenOk(c)
         \/ AmTokenPageOk(c)
         \/ AmTokenOk(c)
         \/ FirstRespondOk(c)
         \/ GateEnter(c)
         \/ PageRespondOk(c)
         \/ WaveJoin(c)
         \/ Resume(c)

NextToken ==
    \/ SetSession
    \/ \E c \in DOMAIN calls :
         \/ StartLookup(c)
         \/ TrackSearchText(c)
         \/ SpTokenRespond(c)
         \/ AmTokenPage(c)
         \/ AmTokenAsset(c)
         \/ FirstRespond(c)
         \/ TopRespond(c)

\* the way of a URL to its resource lookup
NextRoute ==
    \/ SetSession
    \/ \E c \in DOMAIN calls :
         \/ StartQuery(c)
         \/ AmTokenPageOk(c)
         \/ AmTokenOk(c)

\* a playlist search whose token exchange and lookup succeed
NextScenario ==
    \/ SetSession
    \/ \E c \in DOMAIN calls :
         \/ SearchPlaylist(c)
         \/ SpTokenOk(c)
         \/ FirstRespondOk(c)
         \/ GateEnter(c)
         \/ PageRespondStatus(c)
         \/ WaveJoin(c)

\* two runs of iter_playlist_tracks on one playlist, one after the other,
\* whose token exchanges and lookups succeed
NextBatch ==
    \/ SetSession
    \/ \E c \in DOMAIN calls :
         \/ IterPlaylist(c)
         \/ SpTokenOk(c)
         \/ AmTokenPageOk(c)
         \/ AmTokenOk(c)
         \/ FirstRespondOk(c)
         \/ GateEnter(c)
         \/ PageRespondStatus(c)
         \/ WaveJoin(c)
         \/ Resume(c)

\* one playlist call whose token exchange and lookup succeed
NextGate ==
    \/ SetSession
    \/ \E c \in DOMAIN calls :
         \/ StartPlaylist(c)
         \/ SpTokenOk(c)
         \/ AmTokenPageOk(c)
         \/ AmTokenOk(c)
         \/ FirstRespondOk(c)
         \/ GateEnter(c)
         \/ PageRespondStatus(c)
         \/ WaveJoin(c)
         \/ Resume(c)

\* the event loop runs a fetch that can take a permit, and every request in
\* flight is answered
FairGate ==
    \A c \in {1} : WF_vars(GateEnter(c)) /\ WF_vars(PageRespondStatus(c))

Spec == Init /\ [][Next]_vars

SpecGate == Init /\ [][NextGate]_vars /\ FairGate

SpecBatch == InitPair /\ [][NextBatch]_vars

SpecPair == InitPair /\ [][NextPair]_vars

\* two playlist calls, which may overlap, on a fresh client with one permit
\* and a playlist served in pages of two tracks, while the clock runs; every
\* request is answered with 200
InitExpiry ==
    /\ ClientInit(Slots, MaxTotal, 1)
    /\ ~cyclic /\ nulls = {} /\ query = NoQuery
    /\ limit = 2
    /\ playlist_concurrency = 1 /\ playlist_page_limit = NoLimit

SpecExpiry == InitExpiry /\ [][NextPair]_vars
SpecToken == InitToken /\ [][NextToken]_vars

SpecRoute == InitRoute /\ [][NextRoute]_vars

SpecScenario == InitScenario /\ [][NextScenario]_vars
(* ------------------- TrackHistory: pomice/history.py ------------------- *)
\* the tracks the callers play
TrackIds == {1, 2}

\* list(reversed(s))
Reversed(s) == [i \in 1 .. Len(s) |-> s[Len(s) + 1 - i]]

\* s[i] of a Python sequence, i >= -len(s)
PyIndex(s, i) == IF i >= 0 THEN s[i + 1] ELSE s[Len(s) + i + 1]

\* a deque that grows without bound
AppendUnbounded(s, t, size) == Append(s, t)

\* deque(maxlen=size).append(t): a deque that has grown beyond maxlen drops
\* its leftmost element, which is t itself when maxlen is 0
DequeAppend(s, t, size) ==
    LET a == Append(s, t)
    IN  IF Len(a) > size THEN Tail(a) ELSE a

\* a test that lets get_previous step below the oldest entry
PrevBlockedLax == history = <<>> \/ current_index < 0

\* get_previous, line 96: if not self._history or self._current_index <= 0
PrevBlocked == history = <<>> \/ current_index <= 0

\* get_next, line 110: if not self._history or self._current_index >= len - 1
NextBlocked == history = <<>> \/ current_index >= Len(history) - 1

\* no client is under test
NoClient ==
    /\ provider = "spotify" /\ session = FALSE
    /\ playlist_concurrency = Clamp(1) /\ playlist_page_limit = NoLimit
    /\ token = 0 /\ expiry = 0 /\ headers = 0 /\ now = 1 /\ nexch = 0
    /\ total = 0 /\ limit = 1 /\ nulls = {} /\ cyclic = FALSE
    /\ query = NoQuery
    /\ calls = <<>>

\* a TrackHistory and nothing else
InitHistory ==
    /\ \E size \in 1 .. MaxHist : HistoryInit(size)
    /\ NoClient
    /\ NoDedup

clientState == <<clientVars, tokenVars, now, nexch, total, limit, nulls, cyclic,
                 query, calls>>

\* TrackHistory.add
HistAdd ==
    /\ Len(added) < MaxAdds
    /\ \E t \in TrackIds :
         /\ history' = DequeAppend(history, t, max_size)
         /\ added' = Append(added, t)
    /\ current_index' = Len(history') - 1
    /\ hop' = "add"
    /\ hret' = <<>>
    /\ UNCHANGED <<max_size, clientState, dedupVars>>

\* a clear that leaves the navigation position where it is
HistClearKeepsPosition ==
    /\ history' = <<>>
    /\ added' = <<>>
    /\ hop' = "clear"
    /\ hret' = <<>>
    /\ UNCHANGED <<max_size, current_index, clientState, dedupVars>>

\* TrackHistory.clear
HistClear ==
    /\ history' = <<>>
    /\ current_index' = -1
    /\ added' = <<>>
    /\ hop' = "clear"
    /\ hret' = <<>>
    /\ UNCHANGED <<max_size, clientState, dedupVars>>

\* TrackHistory.get_previous
HistGetPrevious ==
    /\ hop' = "get_previous"
    /\ IF PrevBlocked
       THEN /\ hret' = <<>>
            /\ UNCHANGED current_index
       ELSE /\ current_index' = current_index - 1
            /\ hret' = <<PyIndex(history, current_index')>>
    /\ UNCHANGED <<max_size, history, added, clientState, dedupVars>>

\* TrackHistory.get_next
HistGetNext ==
    /\ hop' = "get_next"
    /\ IF NextBlocked
       THEN /\ hret' = <<>>
            /\ UNCHANGED current_index
       ELSE /\ current_index' = current_index + 1
            /\ hret' = <<PyIndex(history, current_index')>>
    /\ UNCHANGED <<max_size, history, added, clientState, dedupVars>>

\* TrackHistory.get_all
HistGetAll ==
    /\ hop' = "get_all"
    /\ hret' = Reversed(history)
    /\ UNCHANGED <<max_size, history, current_index, added, clientState, dedupVars>>

\* list(iter(history)): TrackHistory.__iter__
HistIter ==
    /\ hop' = "iter"
    /\ hret' = Reversed(history)
    /\ UNCHANGED <<max_size, history, current_index, added, clientState, dedupVars>>

\* history[0]: TrackHistory.__getitem__, which raises IndexError on an empty
\* history
HistGetItem ==
    /\ IF history = <<>>
       THEN hop' = "IndexError" /\ hret' = <<>>
       ELSE hop' = "getitem" /\ hret' = <<PyIndex(history, -(0 + 1))>>
    /\ UNCHANGED <<max_size, history, current_index, added, clientState, dedupVars>>

NextHistory ==
    \/ HistAdd
    \/ HistClear
    \/ HistGetPrevious
    \/ HistGetNext
    \/ HistGetAll
    \/ HistIter
    \/ HistGetItem

SpecHistory == InitHistory /\ [][NextHistory]_vars

\* a TrackHistory of any size, max_size = 0 included, and nothing else
InitNavigation ==
    /\ \E size \in 0 .. MaxHist : HistoryInit(size)
    /\ NoClient
    /\ NoDedup

\* TrackHistory.current: None on an empty history or without a position,
\* else self._history[self._current_index], which raises IndexError beyond
\* the last entry
HistCurrent ==
    /\ IF history = <<>> \/ current_index < 0
       THEN hop' = "current" /\ hret' = <<>>
       ELSE IF current_index >= Len(history)
       THEN hop' = "IndexError" /\ hret' = <<>>
       ELSE hop' = "current" /\ hret' = <<PyIndex(history, current_index)>>
    /\ UNCHANGED <<max_size, history, current_index, added, clientState, dedupVars>>

NextNavigation ==
    \/ HistAdd
    \/ HistClear
    \/ HistGetPrevious
    \/ HistGetNext
    \/ HistCurrent

SpecNavigation == InitNavigation /\ [][NextNavigation]_vars

(* -------- SearchHelper.remove_duplicates: pomice/track_utils.py -------- *)
\* the tracks handed to the helper: the fields remove_duplicates reads
Tracks == [uri : {1, 2}, title : {"a", "A", "b"}, author : {"x", "X"},
           track_id : {1}]

\* str.lower() on the titles and authors of Tracks
Lower(s) == IF s = "A" THEN "a" ELSE IF s = "X" THEN "x" ELSE s

\* lines 332-337: the key a track is remembered by
DedupKey(track, uri, title_author) ==
    IF uri THEN track.uri
    ELSE IF title_author THEN <<Lower(track.title), Lower(track.author)>>
    ELSE track.track_id

RECURSIVE DedupLoop(_, _, _, _, _)
\* lines 331-341: for track in tracks: if key not in seen: result.append(track)
DedupLoop(tracks, uri, title_author, seen, result) ==
    IF tracks = <<>> THEN result
    ELSE LET key == DedupKey(Head(tracks), uri, title_author)
         IN  IF key \notin seen
             THEN DedupLoop(Tail(tracks), uri, title_author, seen \cup {key},
                            Append(result, Head(tracks)))
             ELSE DedupLoop(Tail(tracks), uri, title_author, seen, result)

\* SearchHelper.remove_duplicates(tracks, by_uri=uri, by_title_author=title_author)
remove_duplicates(tracks, uri, title_author) ==
    DedupLoop(tracks, uri, title_author, {}, <<>>)

\* a caller about to hand a list of tracks to remove_duplicates; by_uri is
\* True unless the caller passes it
InitDedup ==
    /\ \E tracks \in UNION {[1 .. n -> Tracks] : n \in 0 .. MaxList},
          uri \in BOOLEAN, title_author \in BOOLEAN :
         DedupInit(tracks, uri, title_author)
    /\ NoClient
    /\ NoHistory

\* the call returns
DedupCall ==
    /\ ~rd_called
    /\ rd_called' = TRUE
    /\ rd_result' = remove_duplicates(rd_tracks, by_uri, by_title_author)
    /\ UNCHANGED <<rd_tracks, by_uri, by_title_author, clientState, histVars>>

NextDedup == DedupCall

SpecDedup == InitDedup /\ [][NextDedup]_vars

(* ============================== claims ================================= *)
\* the elements of a finite set of numbers in ascending order
RECURSIVE SortedSeq(_)
SortedSeq(S) ==
    IF S = {} THEN <<>>
    ELSE LET m == CHOOSE x \in S : \A y \in S : x <= y
         IN  <<m>> \o SortedSeq(S \ {m})

IsPlaylistCall(r) == r.pc # "idle" /\ r.qtype = "playlist" /\ r.mode # "track_search"
IsSpSearch(r) == provider = "spotify" /\ r.mode = "search" /\ IsPlaylistCall(r)
IsAmSearch(r) == provider = "applemusic" /\ r.mode = "search" /\ IsPlaylistCall(r)

\* C1: within one call, the page fetches between gate entry and gate exit
\* never outnumber the client's effective playlist_concurrency
C1_ConcurrencyBound ==
    \A c \in DOMAIN calls : InFlight(calls[c]) <= playlist_concurrency

\* a wave of 2 x playlist_concurrency fetches, of which playlist_concurrency
\* are in flight and the others wait at the gate
C1_Witness ==
    \E c \in DOMAIN calls :
        /\ playlist_concurrency >= 2
        /\ Len(calls[c].wave) = 2 * playlist_concurrency
        /\ InFlight(calls[c]) = playlist_concurrency
        /\ Queued(calls[c]) # {}

\* the usable tracks of the spotify pages at the offsets of S, ascending
SpTracksOf(S) ==
    LET offs == SortedSeq(S)
    IN  Flatten([i \in 1 .. Len(offs) |-> Usable(SpPageItems(offs[i]))])

\* C2: a spotify search whose first page succeeded is not failed by pages
\* answering a non-200 status, and returns exactly the tracks of the first
\* page and of the pages that answered 200, each once
C2_PartialFailure ==
    \A c \in DOMAIN calls :
        LET r == calls[c]
        IN  IsSpSearch(r) =>
              /\ (r.pc = "raised" /\ r.tracks # <<>>) => r.exc = "FetchError"
              /\ r.pc = "done" =>
                   /\ SeqToBag(r.tracks) =
                        SeqToBag(Usable(SpPageItems(0)) \o SpTracksOf(r.okp))
                   /\ Len(r.tracks) =
                        Len(Usable(SpPageItems(0))) + Len(SpTracksOf(r.okp))
                   /\ playlist_page_limit = NoLimit =>
                        r.reqp = {o \in 1 .. total - 1 : o % limit = 0}

\* a search that returned although one page failed and another succeeded
C2_Witness ==
    \E c \in DOMAIN calls :
        /\ IsSpSearch(calls[c])
        /\ calls[c].pc = "done"
        /\ playlist_page_limit = NoLimit
        /\ calls[c].okp # {}
        /\ calls[c].reqp \ calls[c].okp # {}
\* the tracks of the applemusic pages with the indexes of S, ascending
AmTracksOf(S) ==
    LET ks == SortedSeq(S)
    IN  Flatten([i \in 1 .. Len(ks) |-> AmPageItems(ks[i])])

\* the pages behind the first page of an applemusic playlist
ChainPages == {k \in 1 .. total : k * limit < total}

\* C3 as claimed: an applemusic search returns the tracks of the first page
\* and of every later page of the chain that did not fail, wherever the
\* failing pages sit
C3_AllUnfailedPages ==
    \A c \in DOMAIN calls :
        LET r == calls[c]
        IN  (IsAmSearch(r) /\ ~cyclic /\ r.pc = "done") =>
              Len(r.tracks) =
                Len(AmPageItems(0)) + Len(AmTracksOf(ChainPages \ (r.reqp \ r.okp)))

\* C3 amended: an applemusic search whose first page succeeded returns, and
\* returns the tracks of the first page and of the pages in front of the
\* first failing page; no page behind a failed page is requested
C3_PagesBeforeFailure ==
    \A c \in DOMAIN calls :
        LET r == calls[c]
            m == Cardinality(r.okp)
        IN  (IsAmSearch(r) /\ ~cyclic) =>
              /\ r.pc = "raised" => r.tracks = <<>> /\ r.nreq = 0
              /\ r.pc = "done" =>
                   /\ r.okp = 1 .. m
                   /\ r.reqp \ r.okp = IF m + 1 \in r.reqp THEN {m + 1} ELSE {}
                   /\ r.reqp \ r.okp = {} => r.okp = ChainPages
                   /\ r.tracks = AmPageItems(0) \o AmTracksOf(1 .. m)

\* a search that returned after a page in the middle of the chain failed
C3_Witness ==
    \E c \in DOMAIN calls :
        /\ IsAmSearch(calls[c])
        /\ ~cyclic
        /\ calls[c].pc = "done"
        /\ calls[c].okp # {}
        /\ calls[c].reqp \ calls[c].okp # {}
        /\ ChainPages \ calls[c].reqp # {}

\* the index of the j-th page behind the first page of the cursor chain
RECURSIVE Chain(_)
Chain(j) == IF j = 0 THEN 0 ELSE NextCursor(Chain(j - 1))

\* C5: on a chain whose pages all answer with a next cursor an applemusic
\* call fetches max_waves pages, one per wave, and then finishes normally
\* with what it gathered
C5_CursorCap ==
    \A c \in DOMAIN calls :
        LET r == calls[c]
            gathered == AmPageItems(0) \o
                        Flatten([j \in 1 .. max_waves |-> AmPageItems(Chain(j))])
        IN  (provider = "applemusic" /\ IsPlaylistCall(r)) =>
              /\ r.nreq <= max_waves
              /\ r.waveNo <= max_waves
              /\ (r.pc = "raised" /\ r.nreq > 0) => r.exc = "FetchError"
              /\ (cyclic /\ r.pc = "done" /\ r.res # <<>>
                    /\ \A i \in DOMAIN r.res : r.res[i] = "ok") =>
                   /\ r.waveNo = max_waves
                   /\ r.nreq = max_waves
                   /\ r.pending # <<>>
                   /\ r.mode = "search" => r.tracks = gathered
                   /\ r.mode = "iter" => Flatten(r.yielded) = gathered

\* a search on an endless chain that returned after max_waves fetches
C5_Witness ==
    \E c \in DOMAIN calls :
        /\ IsAmSearch(calls[c])
        /\ cyclic
        /\ calls[c].pc = "done"
        /\ calls[c].nreq = max_waves
        /\ Len(calls[c].tracks) > max_waves
\* every page the call requested answered 200
AllPagesOk(r) == r.reqp = r.okp

\* C4 as claimed: when every page answers 200 and no page limit is set, the
\* batches of iter_playlist_tracks, consumed to the end, hold the same
\* multiset of tracks as the Playlist search returns for the same playlist
C4_StreamingEquivalence ==
    \A c, d \in DOMAIN calls :
        LET s == calls[c]
            i == calls[d]
        IN  (/\ s.mode = "search" /\ s.pc = "done"
             /\ i.mode = "iter" /\ i.pc \in {"done", "raised"} /\ i.yielded # <<>>
             /\ playlist_page_limit = NoLimit
             /\ AllPagesOk(s) /\ AllPagesOk(i)) =>
              SeqToBag(Flatten(i.yielded)) = SeqToBag(s.tracks)

\* C8 as claimed: the page fetches in flight on one client instance, over all
\* of its calls, never outnumber its playlist_concurrency
C8_InstanceBound ==
    LET RECURSIVE Sum(_)
        Sum(S) == IF S = {} THEN 0
                  ELSE LET c == CHOOSE x \in S : TRUE
                       IN  InFlight(calls[c]) + Sum(S \ {c})
    IN  Sum(DOMAIN calls) <= playlist_concurrency

\* C9 as claimed: an error raised inside a page fetch never reaches the caller
C9_FetchErrorsSwallowed ==
    \A c \in DOMAIN calls :
        IsPlaylistCall(calls[c]) => calls[c].exc # "FetchError"

\* the token exchanges the calls have started, summed over the calls of S
RECURSIVE Exchanges(_)
Exchanges(S) ==
    IF S = {} THEN 0
    ELSE LET c == CHOOSE x \in S : TRUE
         IN  calls[c].xch + Exchanges(S \ {c})

\* the token exchange of call r was answered with a token that was installed
\* together with its expiry
Installed(r) ==
    /\ r.xch = 1
    /\ r.pc \notin Exchanging
    /\ r.pc = "raised" => r.exc = InvalidURL

\* C6: of the calls made one after the other on a client with a session, one
\* that starts while no token is installed (as the first does) exchanges
\* once, one that starts before the installed token's expiry does not
\* exchange, and one that starts after the expiry exchanges once
C6_TokenReuse ==
    /\ nexch = Exchanges(DOMAIN calls)
    /\ \A c \in DOMAIN calls :
         LET r == calls[c]
         IN  (r.pc # "idle" /\ r.sess0 /\ r.solo) =>
               /\ r.tok0 = 0 => r.xch = 1
               /\ (r.tok0 # 0 /\ r.t0 < r.exp0) => r.xch = 0
               /\ (r.tok0 # 0 /\ r.t0 > r.exp0) => r.xch = 1

\* the first call exchanged, and the second call, made after the first had
\* returned and before the token expired, reused the token and returned
C6_Witness ==
    /\ calls[1].pc = "done" /\ Installed(calls[1])
    /\ calls[2].pc = "done" /\ calls[2].solo
    /\ calls[2].tok0 = calls[1].tokId
    /\ calls[2].t0 < calls[2].exp0
    /\ calls[2].xch = 0
    /\ nexch = 1

\* C7: a call that starts without a valid token while another call is
\* suspended in its token exchange starts an exchange of its own, and every
\* exchange that succeeds installs its token over the one in place
C7_NotSingleFlight ==
    [][\A c \in DOMAIN calls :
         /\ (/\ calls[c].pc = "idle" /\ calls'[c].pc # "idle"
             /\ session
             /\ token = 0 \/ now' > expiry
             /\ \E d \in DOMAIN calls : calls[d].pc \in Exchanging)
            => (calls'[c].pc \in Exchanging /\ nexch' = nexch + 1)
         /\ (calls[c].pc \in Exchanging /\ Installed(calls'[c]))
            => (token' = calls[c].tokId /\ headers' = calls[c].tokId)]_vars

\* both calls started without a token and exchanged, the second while the
\* first was suspended; the first was answered last, and its token replaced
\* the one the second had installed
C7_Witness ==
    /\ Installed(calls[1]) /\ Installed(calls[2])
    /\ calls[1].tok0 = 0 /\ calls[2].tok0 = 0
    /\ ~calls[2].solo
    /\ nexch = 2
    /\ token = calls[1].tokId

\* the query string of a recognised URL: what follows the identifier and the
\* slash that may close the path
QueryString(s) ==
    LET e == AM_URL_REGEX(s).end
    IN  SubSeq(s, IF e < Len(s) /\ s[e + 1] = "/" THEN e + 2 ELSE e + 1, Len(s))

\* the query string opens with the marker ?i=<sub-id>
CarriesMarker(qs) == Len(qs) >= 3 /\ qs[1] = "?" /\ qs[2] = "i=" /\ qs[3] # "&"

\* the sub-identifier behind the marker
SubId(qs) == SubSeq(qs, 3, RunEnd(qs, 3, {"&"}))

\* C10 as claimed: the lookup of an album URL that carries ?i=<sub-id> goes to
\* the song <sub-id>, and the lookup of every other recognised URL to the
\* country, type and id of the URL
C10_RouteParsing ==
    \A c \in DOMAIN calls :
        LET r == calls[c]
            qs == QueryString(query.rest)
        IN  r.route # <<>> =>
              r.route =
                IF query.type = "album" /\ CarriesMarker(qs)
                THEN [country |-> query.country, type |-> "song", id |-> SubId(qs)]
                ELSE [country |-> query.country, type |-> query.type,
                      id |-> AM_URL_REGEX(query.rest).id]

\* the token stage of call r is behind it: it held a valid token when it
\* started, or its exchange installed one
TokenInHand(r) ==
    /\ r.pc \notin {"idle"} \cup Exchanging
    /\ r.xch = 0 => (r.tok0 # 0 /\ r.sess0)
    /\ r.xch = 1 =>
         (r.pc = "raised" => r.exc \notin DecodeErrors \cup {RequestException}
                             \/ r.nlook > 0)

\* C11: a call that resolves a URL (search, iter_playlist_tracks,
\* get_recommendations) and whose URL matches no route shape (or, in
\* iter_playlist_tracks, is no playlist URL) sends no resource lookup and no
\* page request and never returns; once the token is in hand it raises the
\* invalid-URL exception
C11_InvalidUrlNoRequest ==
    \A c \in DOMAIN calls :
        LET r == calls[c]
        IN  (r.pc # "idle" /\ r.mode # "track_search" /\
             (r.qtype = "invalid" \/ (r.mode = "iter" /\ r.qtype # "playlist"))) =>
              /\ r.nlook = 0 /\ r.nreq = 0
              /\ r.pc \in Exchanging \cup {"raised"}
              /\ TokenInHand(r) => r.exc = InvalidURL

\* a search with an unrecognised URL exchanged a token and then raised the
\* invalid-URL exception without a lookup
C11_Witness ==
    \E c \in DOMAIN calls :
        /\ calls[c].mode = "search" /\ calls[c].qtype = "invalid"
        /\ calls[c].xch = 1 /\ token = calls[c].tokId
        /\ calls[c].pc = "raised" /\ calls[c].exc = InvalidURL
        /\ calls[c].nlook = 0

\* the token exchange of call r failed: it was started and the call raised
\* out of it, before the URL was looked at
ExchangeFailed(r) ==
    /\ r.xch = 1 /\ r.pc = "raised"
    /\ r.nlook = 0 /\ r.exc # InvalidURL

\* C12 as claimed: a call whose token exchange fails raises an authentication
\* exception, a declared kind other than the request exception of the
\* lookups (and other than the invalid-URL exception), and sends no lookup
C12_AuthExceptionKind ==
    \A c \in DOMAIN calls :
        ExchangeFailed(calls[c]) =>
            /\ calls[c].exc \in DeclaredKinds \ {RequestException, InvalidURL}
            /\ calls[c].nlook = 0

\* C13: a call whose resource lookup or top-tracks request was answered with
\* a status other than 200 has raised the request exception, has sent no
\* page request and has handed out no track
C13_RequiredRequestFailure ==
    \A c \in DOMAIN calls :
        LET r == calls[c]
        IN  r.last = "bad" =>
              /\ r.pc = "raised" /\ r.exc = RequestException
              /\ r.nreq = 0 /\ r.res = <<>>
              /\ r.tracks = <<>> /\ r.yielded = <<>>

\* an artist search whose lookup answered 200 and whose top-tracks request
\* did not
C13_Witness ==
    \E c \in DOMAIN calls :
        /\ calls[c].qtype = "artist" /\ calls[c].nlook = 2
        /\ calls[c].last = "bad" /\ calls[c].pc = "raised"

\* the usable tracks the provider's record of the resource holds itself (for
\* a playlist: its first page)
RecordTracks == IF provider = "spotify" THEN Usable(SpPageItems(0)) ELSE AmPageItems(0)

\* the declared exception kinds left for an empty result
EmptyResultKinds == DeclaredKinds \ {RequestException, InvalidURL}

\* C14 as claimed: a playlist search whose first page holds no usable track
\* raises an empty-result exception, a kind other than the request
\* exception, and sends no page request
C14_EmptyPlaylistKind ==
    \A c \in DOMAIN calls :
        LET r == calls[c]
        IN  (IsPlaylistCall(r) /\ r.mode = "search" /\ r.last = "ok"
               /\ RecordTracks = <<>>) =>
              /\ r.pc = "raised" /\ r.exc \in EmptyResultKinds
              /\ r.nreq = 0

\* C15 as claimed: an album search whose record holds no usable track raises
\* an empty-result exception and returns no Album
C15_EmptyAlbumRaises ==
    \A c \in DOMAIN calls :
        LET r == calls[c]
        IN  (r.qtype = "album" /\ r.last = "ok" /\ RecordTracks = <<>>) =>
              (r.pc = "raised" /\ r.exc \in EmptyResultKinds)

\* C16 as claimed: a call on a client with a session exchanges a token if and
\* only if it starts with no token held or at a time greater than or equal
\* to the installed expiry
C16_RefreshAtExpiry ==
    \A c \in DOMAIN calls :
        LET r == calls[c]
        IN  (r.pc # "idle" /\ r.sess0) =>
              (r.xch = 1 <=> (r.tok0 = 0 \/ r.t0 >= r.exp0))

\* C17 as claimed: every step that changes the token, its expiry or the
\* Authorization header is the end of a successful exchange, which installs
\* all three together
C17_WholesaleReplace ==
    [][(token' # token \/ headers' # headers \/ expiry' # expiry) =>
         \E c \in DOMAIN calls :
            /\ calls[c].pc \in Exchanging
            /\ Installed(calls'[c])
            /\ token' = calls[c].tokId
            /\ headers' = calls[c].tokId]_vars

\* C18 as claimed: a search call sends its lookup only after the token stage
\* and with a recognised URL, sends page requests only after the lookup
\* answered 200, returns only after that answer, and raises nothing but the
\* declared exception kinds
C18_CallStateMachine ==
    \A c \in DOMAIN calls :
        LET r == calls[c]
        IN  r.mode = "search" =>
              /\ r.pc \in Exchanging => (r.nlook = 0 /\ r.nreq = 0)
              /\ r.nlook > 0 => r.qtype # "invalid"
              /\ r.nreq > 0 => (r.last = "ok" /\ r.nlook = 1)
              /\ r.pc = "done" => r.last = "ok"
              /\ r.pc = "raised" => r.exc \in DeclaredKinds

\* C19 as claimed: with a page limit configured no playlist call requests
\* more pages behind the first than the limit, and a finished
\* iter_playlist_tracks has requested the pages a finished search has
C19_PageLimitBothModes ==
    /\ \A c \in DOMAIN calls :
         (IsPlaylistCall(calls[c]) /\ playlist_page_limit # NoLimit) =>
             calls[c].nreq <= playlist_page_limit
    /\ \A c, d \in DOMAIN calls :
         (/\ IsPlaylistCall(calls[c]) /\ calls[c].mode = "search"
          /\ IsPlaylistCall(calls[d]) /\ calls[d].mode = "iter"
          /\ calls[c].pc = "done" /\ calls[d].pc = "done"
          /\ playlist_page_limit # NoLimit) =>
             calls[d].reqp = calls[c].reqp

\* C20: with total=250, limit=100 and playlist_concurrency=4 a spotify search
\* takes 100 tracks from the first page, requests the offsets 100 and 200 in
\* one wave with at most 2 fetches in flight, and returns 250 tracks when
\* both pages answer 200, 150 when only the page at 200 does and 200 when
\* only the page at 100 does
C20_Scenario250 ==
    \A c \in DOMAIN calls :
        LET r == calls[c]
        IN  (IsSpSearch(r) /\ total = 250 /\ limit = 100
               /\ playlist_concurrency = 4 /\ playlist_page_limit = NoLimit) =>
              /\ r.pc = "wave" =>
                   (Len(r.tracks) = 100 /\ r.wave = <<100, 200>> /\ r.waveNo = 1)
              /\ InFlight(r) <= 2
              /\ r.pc = "done" =>
                   /\ r.reqp = {100, 200} /\ r.nreq = 2 /\ r.waveNo = 1
                   /\ r.okp = {100, 200} => Len(r.tracks) = 250
                   /\ r.okp = {200} => Len(r.tracks) = 150
                   /\ r.okp = {100} => Len(r.tracks) = 200
                   /\ r.okp = {} => Len(r.tracks) = 100
                   /\ r.tracks = SpPageItems(0) \o SpTracksOf(r.okp)

\* the search returned 150 tracks: the page at offset 100 failed and the
\* page at offset 200 gave its 50
C20_Witness ==
    \E c \in DOMAIN calls :
        /\ IsSpSearch(calls[c]) /\ total = 250 /\ limit = 100
        /\ playlist_concurrency = 4
        /\ calls[c].pc = "done"
        /\ calls[c].okp = {200} /\ calls[c].reqp = {100, 200}
        /\ Len(calls[c].tracks) = 150
\* iter_playlist_tracks of call r has taken the answer 200 of its lookup
IsIter(r) == r.mode = "iter" /\ IsPlaylistCall(r) /\ r.last = "ok"

\* the generator has issued a fetch for a page behind the first
PastFirstPage(r) == r.wave # <<>> \/ r.nreq > 0 \/ r.pc = "done"

\* C21 as claimed: whatever batch_size and the size of the first page, the
\* first batch iter_playlist_tracks yields is the whole first page
C21_FirstPageOneBatch ==
    \A c \in DOMAIN calls :
        LET r == calls[c]
        IN  (IsIter(r) /\ r.yielded # <<>>) => Head(r.yielded) = r.tracks

\* C21 amended: the first page is yielded as ceil(n / batch_size) batches of
\* at most batch_size tracks (one batch when 1 <= n <= batch_size, none when
\* n = 0), and all of them are yielded before a fetch of a later page is
\* issued
C21_FirstPageBatches ==
    \A c \in DOMAIN calls :
        LET r == calls[c]
            bs == Batches(r.tracks, r.batch)
        IN  IsIter(r) =>
              /\ (r.pc = "yield" /\ r.ri = 0) =>
                   (~PastFirstPage(r) /\ r.yielded # <<>>
                      /\ r.yielded \o r.outbox = bs)
              /\ PastFirstPage(r) =>
                   (Len(r.yielded) >= Len(bs) /\ Take(r.yielded, Len(bs)) = bs)
              /\ (Len(r.tracks) >= 1 /\ Len(r.tracks) <= r.batch) => Len(bs) = 1

\* a first page of two tracks was yielded as two batches of one, and a fetch
\* of the next page is in flight
C21_Witness ==
    \E c \in DOMAIN calls :
        /\ IsIter(calls[c]) /\ calls[c].batch = 1
        /\ Len(calls[c].tracks) = 2
        /\ InFlight(calls[c]) = 1
        /\ Len(calls[c].yielded) = 2
\* call r is a run of iter_playlist_tracks that has come to its end
IterEnded(r) == IsIter(r) /\ r.pc \in {"done", "raised"}

\* the provider gave the runs r and s the same answer for every page both
\* of them requested
SameResponses(r, s) == r.okp \cap s.reqp = s.okp \cap r.reqp

\* C22: two runs of iter_playlist_tracks that differ in batch_size and get
\* the same answers send the same sequence of page requests, yield the same
\* tracks in the same order and end the same way
C22_BatchSizeLogical ==
    \A c, d \in DOMAIN calls :
        LET r == calls[c]
            s == calls[d]
        IN  (IterEnded(r) /\ IterEnded(s) /\ r.batch # s.batch
               /\ SameResponses(r, s)) =>
              /\ r.reqs = s.reqs
              /\ Flatten(r.yielded) = Flatten(s.yielded)
              /\ r.pc = s.pc /\ r.exc = s.exc

\* two runs with different batch sizes requested the same pages, one of
\* which failed for both, and yielded different numbers of batches
C22_Witness ==
    \E c, d \in DOMAIN calls :
        /\ IterEnded(calls[c]) /\ IterEnded(calls[d])
        /\ calls[c].batch < calls[d].batch
        /\ SameResponses(calls[c], calls[d])
        /\ Len(calls[c].reqs) >= 2
        /\ calls[c].reqp \ calls[c].okp # {}
        /\ calls[c].okp # {}
        /\ Len(calls[c].yielded) > Len(calls[d].yielded)
\* C23 as claimed: a run of iter_playlist_tracks whose page requests all
\* answer 200 never raises: it yields its batches and finishes normally
C23_FiniteProducer ==
    \A c \in DOMAIN calls :
        (IsIter(calls[c]) /\ AllPagesOk(calls[c])) => calls[c].pc # "raised"
\* C24: the constructor stores max(1, playlist_concurrency), for arguments
\* below 1 too, so a call's gate holds at least one permit in all, and every
\* page fetch that waits at the gate takes a permit in the end, provided the
\* requests in flight are answered
C24_ClampedGate ==
    /\ [](/\ \A arg \in ConcArgs :
               Clamp(arg) = (IF arg >= 1 THEN arg ELSE 1)
          /\ playlist_concurrency >= 1
          /\ playlist_concurrency \in {Clamp(arg) : arg \in ConcArgs}
          /\ \A c \in DOMAIN calls :
               calls[c].res # <<>> =>
                 calls[c].sem + InFlight(calls[c]) = playlist_concurrency)
    /\ ((\E c \in DOMAIN calls : Queued(calls[c]) # {})
          ~> (\A c \in DOMAIN calls : Queued(calls[c]) = {}))

\* a wave of two fetches on a client with a single permit: one fetch holds
\* the permit and the other waits at the gate
C24_Witness ==
    \E c \in DOMAIN calls :
        /\ playlist_concurrency = 1
        /\ Len(calls[c].wave) = 2
        /\ InFlight(calls[c]) = 1 /\ calls[c].sem = 0
        /\ Queued(calls[c]) # {}
\* the URL of call r is recognised and names a resource of another type than
\* the coroutine takes: iter_playlist_tracks takes playlists,
\* get_recommendations tracks
TypeMismatch(r) ==
    /\ r.pc # "idle" /\ r.qtype # "invalid"
    /\ \/ r.mode = "iter" /\ r.qtype # "playlist"
       \/ r.mode = "recs" /\ r.qtype # "track"

\* C25: iter_playlist_tracks with a recognised URL that is no playlist URL,
\* and get_recommendations with a recognised URL that is no track URL, send
\* no resource request and never return; once the token is in hand they
\* raise the invalid-URL exception
C25_TypeMismatch ==
    \A c \in DOMAIN calls :
        LET r == calls[c]
        IN  TypeMismatch(r) =>
              /\ r.nlook = 0 /\ r.nreq = 0 /\ r.last = "none"
              /\ r.pc \in Exchanging \cup {"raised"}
              /\ TokenInHand(r) => (r.pc = "raised" /\ r.exc = InvalidURL)

\* get_recommendations with an album URL exchanged a token and raised the
\* invalid-URL exception without sending its request
C25_Witness ==
    \E c \in DOMAIN calls :
        /\ calls[c].mode = "recs" /\ calls[c].qtype = "album"
        /\ calls[c].xch = 1 /\ token = calls[c].tokId
        /\ calls[c].pc = "raised" /\ calls[c].exc = InvalidURL
        /\ calls[c].nlook = 0
\* the k tracks added last, most recent first
MostRecent(k) == [i \in 1 .. k |-> added[Len(added) + 1 - i]]

\* C26: a TrackHistory never holds more than max_size tracks; it holds the
\* min(n, max_size) tracks added last since the last clear, and get_all,
\* iteration and history[0] present them most recent first
C26_HistoryBounded ==
    LET k == Min(Len(added), max_size)
    IN  /\ Len(history) <= max_size
        /\ Len(history) = k
        /\ \A i \in 1 .. k : history[Len(history) + 1 - i] = MostRecent(k)[i]
        /\ hop \in {"get_all", "iter"} => hret = MostRecent(k)
        /\ hop = "getitem" => hret = <<added[Len(added)]>>
        /\ hop = "IndexError" => added = <<>>

\* more tracks were added than the history holds, and get_all returned the
\* max_size latest of them, the latest first
C26_Witness ==
    /\ max_size >= 2
    /\ Len(added) > max_size
    /\ hop = "get_all"
    /\ Len(hret) = max_size
    /\ hret[1] = added[Len(added)]
    /\ hret[1] # hret[2]

\* the navigation position is at the oldest / the newest entry
AtOldest == current_index = 0
AtNewest == current_index = Len(history) - 1

\* C27: get_previous returns None and leaves the position where it is when
\* the history is empty or the position is at the oldest entry, get_next
\* when the position is at the newest entry, as it is after every add;
\* otherwise each moves the position by one entry and returns the track
\* there
C27_NavigationBounds ==
    /\ [](/\ current_index \in -1 .. Len(history) - 1
          /\ (current_index = -1) <=> (history = <<>>))
    /\ [][/\ hop' = "get_previous" =>
               IF history = <<>> \/ AtOldest
               THEN hret' = <<>> /\ current_index' = current_index
               ELSE /\ current_index' = current_index - 1
                    /\ hret' = <<history[current_index' + 1]>>
          /\ hop' = "get_next" =>
               IF AtNewest
               THEN hret' = <<>> /\ current_index' = current_index
               ELSE /\ current_index' = current_index + 1
                    /\ hret' = <<history[current_index' + 1]>>
          /\ hop' = "add" => AtNewest'
          /\ hop' \in {"get_previous", "get_next"} => history' = history]_vars

\* get_previous stepped back from the newest entry of a full history, and
\* get_next returned to it
C27_Witness ==
    /\ hop = "get_next"
    /\ hret # <<>>
    /\ AtNewest
    /\ Len(history) = max_size
    /\ Len(added) > max_size
\* the (title, author) pair of a track, case ignored
TitleAuthor(track) == <<Lower(track.title), Lower(track.author)>>

\* the positions of the tracks of s that are the first of their pair
FirstOfPair(s) ==
    {i \in 1 .. Len(s) : \A j \in 1 .. i - 1 : TitleAuthor(s[j]) # TitleAuthor(s[i])}

\* C28 as claimed: remove_duplicates called with by_title_author=True
\* returns the tracks that are the first of their case-insensitive
\* (title, author) pair, in input order
C28_DedupByTitleAuthor ==
    (rd_called /\ by_title_author) =>
        /\ \A i, j \in 1 .. Len(rd_result) :
             i # j => TitleAuthor(rd_result[i]) # TitleAuthor(rd_result[j])
        /\ rd_result =
             [k \in 1 .. Cardinality(FirstOfPair(rd_tracks)) |->
                 rd_tracks[SortedSeq(FirstOfPair(rd_tracks))[k]]]
\* the multiples of limit from limit up to total, total excluded, ascending,
\* cut to the first playlist_page_limit of them when a page limit is set
ExpectedOffsets ==
    LET every == SortedSeq({o \in 1 .. total - 1 : o % limit = 0})
    IN  IF playlist_page_limit # NoLimit
        THEN SubSeq(every, 1, Min(playlist_page_limit, Len(every)))
        ELSE every

\* C29: the page requests of a spotify search are the expected offsets, in
\* ascending order and each once: at every moment the requests sent are the
\* first of them, a search that returns has sent them all, and a playlist
\* with total <= limit gets no page request
C29_OffsetComputation ==
    \A c \in DOMAIN calls :
        LET r == calls[c]
        IN  IsSpSearch(r) =>
              /\ Len(r.reqs) <= Len(ExpectedOffsets)
              /\ r.reqs = SubSeq(ExpectedOffsets, 1, Len(r.reqs))
              /\ r.nreq = Len(r.reqs)
              /\ r.pc = "done" => r.reqs = ExpectedOffsets
              /\ total <= limit => r.reqs = <<>>

\* a search on a playlist of at least three pages, with a page limit of one
\* page, returned after it had requested the page at offset limit alone
C29_Witness ==
    \E c \in DOMAIN calls :
        /\ IsSpSearch(calls[c]) /\ calls[c].pc = "done"
        /\ playlist_page_limit # NoLimit /\ playlist_page_limit >= 1
        /\ total > 2 * limit
        /\ calls[c].reqs = <<limit>>
\* the tracks of the page a call requested under the name p
PageTracks(p) == IF provider = "spotify" THEN Usable(SpPageItems(p)) ELSE AmPageItems(p)

\* the tracks of the pages that answered call r with 200, in the order in
\* which r submitted their requests
InSubmissionOrder(r) ==
    Flatten([i \in 1 .. Len(r.reqs) |->
                IF r.reqs[i] \in r.okp THEN PageTracks(r.reqs[i]) ELSE <<>>])

\* C30: whatever the order in which the fetches of a wave complete, a search
\* aggregates the tracks of its pages in the order of submission, wave after
\* wave, and returns the first page's tracks followed by them
C30_SubmissionOrder ==
    \A c \in DOMAIN calls :
        LET r == calls[c]
            want == InSubmissionOrder(r)
        IN  (IsPlaylistCall(r) /\ r.mode = "search" /\ ~cyclic) =>
              /\ Len(r.agg) <= Len(want)
              /\ r.agg = SubSeq(want, 1, Len(r.agg))
              /\ r.pc = "done" => r.tracks = PageTracks(0) \o want

\* a search returned the tracks of two pages of one wave in the order of
\* submission although the fetch submitted later had completed first
C30_Witness ==
    \E c \in DOMAIN calls :
        /\ IsPlaylistCall(calls[c]) /\ calls[c].mode = "search"
        /\ calls[c].pc = "done"
        /\ calls[c].unordered
        /\ Cardinality(calls[c].okp) >= 2
        /\ calls[c].tracks = PageTracks(0) \o InSubmissionOrder(calls[c])
\* the step submits a wave of call c: its tasks are all new and none has run
SubmitsWave(c) ==
    /\ calls'[c].res # <<>>
    /\ calls'[c].res # calls[c].res
    /\ \A i \in DOMAIN calls'[c].res : calls'[c].res[i] = "queued"

\* no fetch of call r is waiting at the gate or between gate entry and exit
NoFetchRunning(r) == InFlight(r) = 0 /\ Queued(r) = {}

\* C31: a search changes its aggregate only while none of its fetches is
\* running, and it submits a wave only when every fetch of the wave before
\* has completed, in the step that appends that wave's results
C31_WaveBarrier ==
    [][\A c \in DOMAIN calls :
         LET r == calls[c]
         IN  r.mode = "search" =>
               /\ calls'[c].agg # r.agg => NoFetchRunning(r)
               /\ calls'[c].tracks # r.tracks => NoFetchRunning(r)
               /\ SubmitsWave(c) =>
                    /\ NoFetchRunning(r)
                    /\ \A i \in DOMAIN r.res : r.res[i] \in {"ok", "fail", "err"}
                    /\ calls'[c].agg =
                         r.agg \o Flatten([i \in 1 .. Len(r.wave) |->
                                             IF r.res[i] = "ok"
                                             THEN (IF provider = "spotify"
                                                   THEN Usable(SpPageItems(r.wave[i]))
                                                   ELSE AmPageItems(r.wave[i]))
                                             ELSE <<>>])]_vars

\* the second wave of a search is in flight, and the tracks of the first
\* wave are in the aggregate
C31_Witness ==
    \E c \in DOMAIN calls :
        /\ calls[c].mode = "search" /\ calls[c].pc = "wave"
        /\ calls[c].agg # <<>>
        /\ InFlight(calls[c]) >= 1
        /\ Len(calls[c].reqs) > Len(calls[c].wave)
\* the pages behind the first that a spotify call has to fetch
RemainingPages(r) ==
    IF r.mode = "search" THEN Len(SpPageOffsets)
    ELSE Len(PyRange(limit, total, limit))

\* ceil(n / d)
CeilDiv(n, d) == (n + d - 1) \div d

\* C32 as claimed: a spotify call, search and iter_playlist_tracks alike,
\* fetches its R remaining pages in ceil(R / 2c) waves, of which the k-th
\* holds the pages (k-1)*2c+1 .. min(k*2c, R); an applemusic wave takes
\* min(queue length, 2c) cursors
C32_WavePartition ==
    \A c \in DOMAIN calls :
        LET r == calls[c]
            R == RemainingPages(r)
        IN  /\ (provider = "spotify" /\ IsPlaylistCall(r)
                  /\ (r.mode = "iter" => playlist_page_limit = NoLimit)) =>
                  /\ r.waveNo <= CeilDiv(R, WaveSize)
                  /\ r.pc = "wave" =>
                       Len(r.wave) = Min(WaveSize, R - (r.waveNo - 1) * WaveSize)
                  /\ r.pc = "done" => r.waveNo = CeilDiv(R, WaveSize)
            /\ (provider = "applemusic" /\ r.pc = "wave") =>
                  \/ Len(r.wave) = WaveSize
                  \/ Len(r.wave) >= 1 /\ Len(r.wave) < WaveSize /\ r.pending = <<>>
\* call c sends a resource lookup or a page request in this step
SendsRequest(c) ==
    \/ calls'[c].nlook > calls[c].nlook
    \/ calls'[c].nreq > calls[c].nreq

\* C33 as claimed: whenever a call sends a resource lookup or a page request
\* the client holds a token and an Authorization header, and the header
\* carries the token installed at that moment
C33_HeaderCarriesToken ==
    [][\A c \in DOMAIN calls :
         SendsRequest(c) => (token' # 0 /\ headers' # 0 /\ headers' = token')]_vars
\* C34: in an applemusic playlist call the cursor queue never holds more than
\* one cursor, every wave is a single fetch, at most one fetch is in flight,
\* at most max_waves pages behind the first are requested, and each of them
\* is requested with the next cursor of the page requested before, which
\* answered 200
C34_SingleCursor ==
    \A c \in DOMAIN calls :
        LET r == calls[c]
        IN  (provider = "applemusic" /\ IsPlaylistCall(r)) =>
              /\ Len(r.pending) <= 1
              /\ r.pc = "wave" => Len(r.wave) = 1
              /\ Len(r.wave) <= 1
              /\ InFlight(r) <= 1
              /\ r.nreq <= max_waves /\ Len(r.reqs) = r.nreq
              /\ r.reqs # <<>> => r.reqs[1] = NextCursor(0)
              /\ \A i \in 1 .. Len(r.reqs) - 1 :
                   /\ r.reqs[i] \in r.okp
                   /\ r.reqs[i + 1] = NextCursor(r.reqs[i])
                   /\ r.reqs[i + 1] # NoCursor

\* a client with two permits has the third page of a chain in flight, alone,
\* after the two pages before it answered 200
C34_Witness ==
    \E c \in DOMAIN calls :
        /\ provider = "applemusic" /\ IsPlaylistCall(calls[c])
        /\ playlist_concurrency >= 2
        /\ ~cyclic
        /\ calls[c].pc = "wave" /\ InFlight(calls[c]) = 1
        /\ Len(calls[c].reqs) = 3
        /\ Cardinality(calls[c].okp) = 2
\* C35: the tracks a spotify search returns are in the provider's order,
\* whichever pages failed and in whatever order the fetches completed: the
\* usable tracks of the first page, then those of the pages that answered
\* 200 by ascending offset
C35_AscendingOffsets ==
    \A c \in DOMAIN calls :
        LET r == calls[c]
        IN  (IsSpSearch(r) /\ r.pc = "done") =>
              /\ \A i, j \in 1 .. Len(r.tracks) : i < j => r.tracks[i] < r.tracks[j]
              /\ r.tracks = Usable(SpPageItems(0)) \o SpTracksOf(r.okp)
              /\ \A i \in 1 .. Len(r.tracks) :
                   r.tracks[i] \in 0 .. total - 1 /\ r.tracks[i] \notin nulls

\* a search returned the tracks of two pages around a failed one, after a
\* fetch had completed ahead of one submitted earlier
C35_Witness ==
    \E c \in DOMAIN calls :
        /\ IsSpSearch(calls[c]) /\ calls[c].pc = "done"
        /\ calls[c].unordered
        /\ \E a, b, f \in calls[c].reqp :
             /\ a < f /\ f < b
             /\ a \in calls[c].okp /\ b \in calls[c].okp /\ f \notin calls[c].okp
\* C36: while iter_playlist_tracks is suspended at a yield none of its page
\* fetches is waiting or in flight and every permit of its semaphore is
\* free, and the generator does nothing until the consumer asks for the
\* next batch
C36_QuietAtYield ==
    /\ [](\A c \in DOMAIN calls :
            LET r == calls[c]
            IN  r.pc = "yield" =>
                  /\ r.mode = "iter"
                  /\ InFlight(r) = 0 /\ Queued(r) = {}
                  /\ \A i \in DOMAIN r.res : r.res[i] \in {"ok", "fail"}
                  /\ r.ri = 0 => (r.nreq = 0 /\ r.wave = <<>>)
                  /\ r.ri > 0 => r.sem = playlist_concurrency)
    /\ [][\A c \in DOMAIN calls :
            (calls[c].pc = "yield" /\ calls'[c] # calls[c]) =>
                calls'[c] = Continue(calls[c])]_vars

\* the generator is suspended with a batch of the first page of a wave of
\* two, and both permits of its semaphore are free
C36_Witness ==
    \E c \in DOMAIN calls :
        /\ calls[c].pc = "yield" /\ calls[c].ri = 1
        /\ Len(calls[c].wave) >= 2
        /\ playlist_concurrency >= 2
        /\ calls[c].sem = playlist_concurrency
\* C37: the permits taken from a call's semaphore are as many as the call's
\* fetches between gate entry and gate exit; a fetch takes one permit when
\* it enters and gives it back when it leaves, whether with 200, with
\* another status or with an error; after a wave has completed all permits
\* are free
C37_PermitAccounting ==
    /\ [](\A c \in DOMAIN calls :
            LET r == calls[c]
            IN  r.res # <<>> =>
                  /\ playlist_concurrency - r.sem = InFlight(r)
                  /\ r.sem >= 0
                  /\ (\A i \in DOMAIN r.res : r.res[i] \in {"ok", "fail", "err"}) =>
                       r.sem = playlist_concurrency)
    /\ [][\A c \in DOMAIN calls : \A i \in DOMAIN calls[c].res :
            /\ (calls[c].res[i] = "inflight" /\ i \in DOMAIN calls'[c].res
                  /\ calls'[c].res[i] \in {"ok", "fail", "err"}) =>
                 calls'[c].sem = calls[c].sem + 1
            /\ (calls[c].res[i] = "queued" /\ i \in DOMAIN calls'[c].res
                  /\ calls'[c].res[i] = "inflight") =>
                 calls'[c].sem = calls[c].sem - 1]_vars

\* one fetch of a wave raised and another was answered with a status other
\* than 200; no fetch is left, and all permits are free
C37_Witness ==
    \E c \in DOMAIN calls :
        /\ \E i, j \in DOMAIN calls[c].res :
             calls[c].res[i] = "err" /\ calls[c].res[j] = "fail"
        /\ InFlight(calls[c]) = 0 /\ Queued(calls[c]) = {}
        /\ calls[c].sem = playlist_concurrency
\* C38: a call exchanges the token at most once, and only at its start,
\* before its resource lookup and before any page request; no step of a call
\* that is past its exchange touches the token, its expiry or the headers; a
\* page request is sent with the headers installed at that moment, and the
\* step that sends it exchanges nothing, whether the token has expired or not
C38_OneExchangeAtStart ==
    /\ [](\A c \in DOMAIN calls :
            /\ calls[c].xch <= 1
            /\ calls[c].pc \in Exchanging =>
                 (calls[c].xch = 1 /\ calls[c].nlook = 0 /\ calls[c].nreq = 0))
    /\ [][\A c \in DOMAIN calls :
            /\ calls'[c].xch # calls[c].xch =>
                 (calls[c].pc = "idle" /\ calls'[c].xch = calls[c].xch + 1)
            /\ (calls'[c] # calls[c] /\ calls[c].pc \notin Exchanging) =>
                 UNCHANGED tokenVars
            /\ calls'[c].nreq > calls[c].nreq =>
                 /\ calls'[c].hdr = headers
                 /\ nexch' = nexch
                 /\ UNCHANGED <<tokenVars, now>>]_vars

\* call c exchanged once, at its start, and is paginating; the other call
\* started while c's token was installed, read the clock, found the token
\* expired and installed its own; c's latest page request went out with the
\* other call's token, and c has exchanged nothing since
C38_Witness ==
    \E c, d \in DOMAIN calls :
        /\ c # d
        /\ calls[c].pc = "wave" /\ calls[c].nreq >= 2
        /\ calls[c].xch = 1 /\ calls[c].tokId # 0
        /\ calls[d].tok0 = calls[c].tokId /\ calls[d].xch = 1
        /\ calls[d].t0 > calls[c].t0
        /\ calls[c].hdr = calls[d].tokId
        /\ headers = calls[d].tokId
\* the name under which a call requests the page with index p: its offset
\* (spotify) or its cursor (applemusic)
PageKey(p) == IF provider = "spotify" THEN p * limit ELSE p

\* C39: every batch iter_playlist_tracks has yielded is non-empty, holds at
\* most batch_size tracks, none of them a null entry, all of one page, and
\* that page is the first page or a page that was answered with 200
C39_BatchesWithinPage ==
    \A c \in DOMAIN calls :
        LET r == calls[c]
        IN  r.mode = "iter" =>
              \A k \in DOMAIN r.yielded :
                 LET b == r.yielded[k]
                 IN  /\ Len(b) >= 1
                     /\ Len(b) <= r.batch
                     /\ \A i \in DOMAIN b :
                          /\ b[i] \notin nulls
                          /\ b[i] \div limit = b[1] \div limit
                     /\ \/ b[1] \div limit = 0
                        \/ PageKey(b[1] \div limit) \in r.okp

\* pages of one track and batch_size 2: two batches of one track each have
\* been yielded, one of them from a page behind a page that failed, which
\* has yielded none
C39_Witness ==
    \E c \in DOMAIN calls :
        /\ calls[c].mode = "iter" /\ calls[c].batch = 2 /\ limit = 1
        /\ Len(calls[c].yielded) >= 2
        /\ calls[c].reqp \ calls[c].okp # {}
        /\ \E k \in DOMAIN calls[c].yielded :
             \E p \in calls[c].reqp \ calls[c].okp :
                calls[c].yielded[k][1] > (IF provider = "spotify" THEN p ELSE p * limit)
\* the position is -1 on an empty history and that of an entry otherwise;
\* current has never raised, and has returned None without a position and
\* the track at the position otherwise
PositionInvariant ==
    /\ current_index \in -1 .. Len(history) - 1
    /\ (current_index = -1) <=> (history = <<>>)
    /\ hop # "IndexError"
    /\ hop = "current" =>
         hret = IF current_index = -1 THEN <<>> ELSE <<history[current_index + 1]>>

\* C40 as claimed: for every max_size >= 0 the position invariant holds after
\* every add, get_previous, get_next and clear, and current, read right after
\* an add, returns the track that was added
C40_PositionInvariant ==
    /\ []PositionInvariant
    /\ [][(hop = "add" /\ hop' = "current") => hret' = <<added[Len(added)]>>]_vars

\* C40: for every max_size >= 0 the position invariant holds after every
\* add, get_previous, get_next and clear; current, read right after an add,
\* returns the track that was added when max_size >= 1, and None when
\* max_size = 0, where add keeps nothing
C40_PositionInvariantSized ==
    /\ []PositionInvariant
    /\ [][(hop = "add" /\ hop' = "current") =>
            hret' = IF max_size = 0 THEN <<>> ELSE <<added[Len(added)]>>]_vars

\* adds have evicted from a full history of two or more tracks, the position
\* is at the newest entry, and current has returned the track added last
C40_Witness ==
    /\ max_size >= 2
    /\ Len(added) > max_size
    /\ Len(history) = max_size
    /\ hop = "current"
    /\ current_index = Len(history) - 1
    /\ hret = <<added[Len(added)]>>
=============================================================================
